---- MODULE Spec2Model ----
(***************************************************************************)
(* Flowchart editor: scene, history and interaction controller of the two  *)
(* canvas variants of the repository.                                      *)
(*   "pz": the pan/zoom canvas        (src/unnamed/part_001)               *)
(*   "ar": the area-enabled canvas    (src/src/index.js)                   *)
(* Node, Connection and Area objects have identity (JavaScript object      *)
(* references).  nodeObj / connObj / areaObj are the object stores; the    *)
(* collections and the controller fields hold references into them, so a   *)
(* reference can outlive the membership of its object in the scene.        *)
(***************************************************************************)
EXTENDS Integers, Sequences, FiniteSets, TLC

VARIABLES
  nodeObj, connObj, areaObj,
  nodes, connections, areas,
  nodeIdCounter, connectionIdCounter, areaIdCounter,
  selectedNode, selectedConnection, selectedArea,
  history, historyIndex,
  isPanning, resizeHandle,
  isDragging, dragOffsetX, dragOffsetY,
  isResizing, resizeStartWidth, resizeStartHeight,
  resizeStartX, resizeStartY, resizeStartNodeX, resizeStartNodeY,
  isConnecting, connectionStart, connectionStartPort,
  isReconnecting, reconnectingConnection, reconnectingEnd,
  editingNode,
  draggingNode, draggingArea, resizingNode, resizingArea,
  resizeStart, dragStart, connectingFrom, connectingTo,
  markingArea, areaStart, areaEnd,
  lastClickNode, lastClickArea, spacePressed,
  clipboard, routed, pathPoints, now, lastClickTime, lastDown,
  zoom, panX, panY, options, logicalWidth, logicalHeight,
  variant, threw

objVars   == <<nodeObj, connObj, areaObj>>
sceneVars == <<nodes, connections, areas>>
idVars    == <<nodeIdCounter, connectionIdCounter, areaIdCounter>>
selVars   == <<selectedNode, selectedConnection, selectedArea>>
histVars  == <<history, historyIndex>>
dragVars  == <<isDragging, dragOffsetX, dragOffsetY>>
rszVars   == <<isResizing, resizeStartWidth, resizeStartHeight,
               resizeStartX, resizeStartY, resizeStartNodeX, resizeStartNodeY>>
conVars   == <<isConnecting, connectionStart, connectionStartPort>>
rcnVars   == <<isReconnecting, reconnectingConnection, reconnectingEnd>>
pzVars    == <<dragVars, rszVars, conVars, rcnVars, editingNode>>
arGesture == <<draggingNode, draggingArea, resizingNode, resizingArea,
               resizeStart, dragStart, connectingFrom, connectingTo>>
arMark    == <<markingArea, areaStart, areaEnd>>
arClick   == <<lastClickNode, lastClickArea, spacePressed>>
clockVars == <<now, lastClickTime, lastDown>>
viewVars  == <<zoom, panX, panY, options, logicalWidth, logicalHeight>>
classVars == <<variant, clipboard, routed, pathPoints, clockVars, viewVars>>
arVars    == <<arGesture, arMark, arClick, classVars>>
ghostVars == <<threw>>
vars      == <<objVars, sceneVars, idVars, selVars, histVars, isPanning,
               resizeHandle, pzVars, arVars, ghostVars>>

----------------------------------------------------------------------------
(* Bounds of the model *)

MaxNodes == 2
MaxConns == 2
MaxHist  == 3
MaxAreas == 1
MaxIds == 2
MaxHistArea == 4
MaxCommits == 52
MaxHistIds == 4
MaxUndoDepth == 3
BranchOrd == 2

(* Program constants *)

maxHistorySize      == 50
connectionPointRadius == 10
resizeHandleRadius  == 8
endpointThreshold   == 15
defaultWidth        == 120
defaultHeight       == 60

Null    == 0
NoClip  == [type |-> "none"]
NoRoute == [set |-> FALSE]
NoPoint == [x |-> 0, y |-> 0, position |-> "none"]

----------------------------------------------------------------------------
(* Sequence helpers *)

Range(s) == {s[i] : i \in 1..Len(s)}

RECURSIVE FilterSeq(_, _)
FilterSeq(s, keep) ==
  IF s = <<>> THEN <<>>
  ELSE IF Head(s) \in keep THEN <<Head(s)>> \o FilterSeq(Tail(s), keep)
       ELSE FilterSeq(Tail(s), keep)

Max2(a, b) == IF a >= b THEN a ELSE b
Min2(a, b) == IF a <= b THEN a ELSE b

RECURSIVE MaxOfSeq(_, _)
MaxOfSeq(s, m) == IF s = <<>> THEN m ELSE MaxOfSeq(Tail(s), Max2(m, Head(s)))

(* the k smallest references not in use *)
RECURSIVE FreshRefs(_, _)
FreshRefs(used, k) ==
  IF k = 0 THEN <<>>
  ELSE LET r == CHOOSE q \in 1..(Cardinality(used) + 1) :
                  q \notin used /\ \A p \in 1..(q - 1) : p \in used
       IN <<r>> \o FreshRefs(used \cup {r}, k - 1)

Dist2(x1, y1, x2, y2) == (x1 - x2) * (x1 - x2) + (y1 - y2) * (y1 - y2)

(* first element of a point list closer than thr to (x, y) *)
RECURSIVE FirstWithin(_, _, _, _)
FirstWithin(pts, x, y, thr) ==
  IF pts = <<>> THEN NoPoint
  ELSE IF Dist2(x, y, Head(pts).x, Head(pts).y) < thr * thr THEN Head(pts)
       ELSE FirstWithin(Tail(pts), x, y, thr)

----------------------------------------------------------------------------
(* Node (geometry queries) *)

NewNode(id, type, x, y, text) ==
  [id |-> id, type |-> type, x |-> x, y |-> y, text |-> text,
   width |-> defaultWidth, height |-> defaultHeight]

containsPoint(n, x, y) ==
  /\ 2 * x >= 2 * n.x - n.width
  /\ 2 * x <= 2 * n.x + n.width
  /\ 2 * y >= 2 * n.y - n.height
  /\ 2 * y <= 2 * n.y + n.height

getConnectionPoints(n) ==
  << [x |-> n.x, y |-> n.y - n.height \div 2, position |-> "top"],
     [x |-> n.x + n.width \div 2, y |-> n.y, position |-> "right"],
     [x |-> n.x, y |-> n.y + n.height \div 2, position |-> "bottom"],
     [x |-> n.x - n.width \div 2, y |-> n.y, position |-> "left"] >>

isOnConnectionPoint(n, x, y) ==
  FirstWithin(getConnectionPoints(n), x, y, connectionPointRadius)

getResizeHandles(n) ==
  LET left   == n.x - n.width \div 2
      right  == n.x + n.width \div 2
      top    == n.y - n.height \div 2
      bottom == n.y + n.height \div 2
  IN << [x |-> left,  y |-> top,    position |-> "top-left"],
        [x |-> right, y |-> top,    position |-> "top-right"],
        [x |-> right, y |-> bottom, position |-> "bottom-right"],
        [x |-> left,  y |-> bottom, position |-> "bottom-left"] >>

isOnResizeHandle(n, x, y) ==
  FirstWithin(getResizeHandles(n), x, y, resizeHandleRadius)

RECURSIVE ClosestOf(_, _, _, _)
ClosestOf(pts, x, y, best) ==
  IF pts = <<>> THEN best
  ELSE IF Dist2(x, y, Head(pts).x, Head(pts).y) < Dist2(x, y, best.x, best.y)
       THEN ClosestOf(Tail(pts), x, y, Head(pts))
       ELSE ClosestOf(Tail(pts), x, y, best)

getClosestConnectionPoint(n, x, y) ==
  LET pts == getConnectionPoints(n) IN ClosestOf(Tail(pts), x, y, Head(pts))

----------------------------------------------------------------------------
(* Connection (port positions, orthogonal path, proximity) *)

NewConnection(id, fromNode, fromPort, toNode, toPort) ==
  [id |-> id, fromNode |-> fromNode, fromPort |-> fromPort,
   toNode |-> toNode, toPort |-> toPort]

getPortPosition(n, port) ==
  CASE port = "top"    -> [x |-> n.x, y |-> n.y - n.height \div 2]
    [] port = "right"  -> [x |-> n.x + n.width \div 2, y |-> n.y]
    [] port = "bottom" -> [x |-> n.x, y |-> n.y + n.height \div 2]
    [] port = "left"   -> [x |-> n.x - n.width \div 2, y |-> n.y]
    [] OTHER           -> [x |-> n.x, y |-> n.y]

getPortDirection(port) ==
  CASE port = "top"    -> [x |-> 0, y |-> -1]
    [] port = "right"  -> [x |-> 1, y |-> 0]
    [] port = "bottom" -> [x |-> 0, y |-> 1]
    [] port = "left"   -> [x |-> -1, y |-> 0]
    [] OTHER           -> [x |-> 0, y |-> 0]

Abs(a) == IF a < 0 THEN -a ELSE a

routeOffset    == 30
alignTolerance == 10

(* a router without the straight line of aligned ports *)
calculateOrthogonalPath_noStraight(start, end, startPort, endPort) ==
  LET startH == startPort \in {"left", "right"}
      endH   == endPort \in {"left", "right"}
      startDir == getPortDirection(startPort)
      endDir   == getPortDirection(endPort)
      p1 == [x |-> start.x + startDir.x * routeOffset,
             y |-> start.y + startDir.y * routeOffset]
      p2 == [x |-> end.x + endDir.x * routeOffset,
             y |-> end.y + endDir.y * routeOffset]
      midX == (p1.x + p2.x) \div 2
      midY == (p1.y + p2.y) \div 2
  IN IF startH /\ ~endH THEN <<start, [x |-> end.x, y |-> start.y], end>>
     ELSE IF ~startH /\ endH THEN <<start, [x |-> start.x, y |-> end.y], end>>
     ELSE IF startH
          THEN <<start, p1, [x |-> midX, y |-> p1.y], [x |-> midX, y |-> p2.y], p2, end>>
     ELSE <<start, p1, [x |-> p1.x, y |-> midY], [x |-> p2.x, y |-> midY], p2, end>>

(* a router that turns the corner of perpendicular ports on the wrong axis *)
calculateOrthogonalPath_otherCorner(start, end, startPort, endPort) ==
  LET full == calculateOrthogonalPath_noStraight(start, end, startPort, endPort)
  IN IF Len(full) = 3
     THEN IF startPort \in {"left", "right"}
          THEN <<start, [x |-> start.x, y |-> end.y], end>>
          ELSE <<start, [x |-> end.x, y |-> start.y], end>>
     ELSE IF Abs(start.y - end.y) < alignTolerance
             /\ startPort \in {"left", "right"}
          THEN <<start, end>>
     ELSE IF Abs(start.x - end.x) < alignTolerance
             /\ startPort \in {"top", "bottom"}
          THEN <<start, end>>
     ELSE full

(* a router that joins the two offset points of parallel ports directly *)
calculateOrthogonalPath_noJog(start, end, startPort, endPort) ==
  LET full == calculateOrthogonalPath_otherCorner(start, end, startPort, endPort)
  IN IF Len(full) = 6 THEN <<full[1], full[2], full[5], full[6]>>
     ELSE IF Len(full) = 3
     THEN calculateOrthogonalPath_noStraight(start, end, startPort, endPort)
     ELSE full

(* a router whose corner for perpendicular ports is the end point itself *)
calculateOrthogonalPath_noCorner(start, end, startPort, endPort) ==
  LET full == calculateOrthogonalPath_noJog(start, end, startPort, endPort)
  IN IF Len(full) = 3 THEN <<start, end, end>>
     ELSE IF Len(full) = 4
     THEN calculateOrthogonalPath_otherCorner(start, end, startPort, endPort)
     ELSE full

calculateOrthogonalPath(start, end, startPort, endPort) ==
  LET isHorizontallyAligned == Abs(start.y - end.y) < alignTolerance
      isVerticallyAligned   == Abs(start.x - end.x) < alignTolerance
      startH == startPort \in {"left", "right"}
      endH   == endPort \in {"left", "right"}
      startV == startPort \in {"top", "bottom"}
      endV   == endPort \in {"top", "bottom"}
      startDir == getPortDirection(startPort)
      endDir   == getPortDirection(endPort)
      p1 == [x |-> start.x + startDir.x * routeOffset,
             y |-> start.y + startDir.y * routeOffset]
      p2 == [x |-> end.x + endDir.x * routeOffset,
             y |-> end.y + endDir.y * routeOffset]
      midX == (p1.x + p2.x) \div 2
      midY == (p1.y + p2.y) \div 2
  IN IF isHorizontallyAligned /\ startH /\ endH THEN <<start, end>>
     ELSE IF isVerticallyAligned /\ startV /\ endV THEN <<start, end>>
     ELSE IF startH /\ endV THEN <<start, [x |-> end.x, y |-> start.y], end>>
     ELSE IF startV /\ endH THEN <<start, [x |-> start.x, y |-> end.y], end>>
     ELSE IF startH /\ endH
          THEN <<start, p1, [x |-> midX, y |-> p1.y], [x |-> midX, y |-> p2.y], p2, end>>
     ELSE IF startV /\ endV
          THEN <<start, p1, [x |-> p1.x, y |-> midY], [x |-> p2.x, y |-> midY], p2, end>>
     ELSE <<start, p1, p2, end>>

(* a getPathPoints that ignores the waypoints *)
getPathPoints_routedOnly(start, end, startPort, endPort, waypoints) ==
  calculateOrthogonalPath(start, end, startPort, endPort)

getPathPoints(start, end, startPort, endPort, waypoints) ==
  IF Len(waypoints) > 0 THEN <<start>> \o waypoints \o <<end>>
  ELSE calculateOrthogonalPath(start, end, startPort, endPort)

(* pointToLineDistance(px, py, x1, y1, x2, y2) < thr, compared on squares *)
pointToLineDistanceBelow(px, py, x1, y1, x2, y2, thr) ==
  LET dx  == x2 - x1
      dy  == y2 - y1
      lengthSquared == dx * dx + dy * dy
      dot == (px - x1) * dx + (py - y1) * dy
  IN IF lengthSquared = 0 THEN Dist2(px, py, x1, y1) < thr * thr
     ELSE IF dot <= 0 THEN Dist2(px, py, x1, y1) < thr * thr
     ELSE IF dot >= lengthSquared THEN Dist2(px, py, x2, y2) < thr * thr
     ELSE Dist2(px, py, x1, y1) * lengthSquared - dot * dot
            < thr * thr * lengthSquared

isNearPoint(c, x, y) ==
  LET start  == getPortPosition(nodeObj[c.fromNode], c.fromPort)
      end    == getPortPosition(nodeObj[c.toNode], c.toPort)
      points == getPathPoints(start, end, c.fromPort, c.toPort, <<>>)
  IN \E i \in 1..(Len(points) - 1) :
       pointToLineDistanceBelow(x, y, points[i].x, points[i].y,
                                points[i + 1].x, points[i + 1].y,
                                endpointThreshold)

----------------------------------------------------------------------------
(* Object stores: objects reachable from the scene or the controller *)

LiveConns ==
  (Range(connections) \cup {selectedConnection, reconnectingConnection})
    \ {Null}

LiveAreas ==
  (Range(areas) \cup {selectedArea, draggingArea, resizingArea, lastClickArea})
    \ {Null}

LiveNodes ==
  (Range(nodes)
     \cup {connObj[c].fromNode : c \in DOMAIN connObj}
     \cup {connObj[c].toNode : c \in DOMAIN connObj}
     \cup {selectedNode, connectionStart, editingNode, draggingNode,
           resizingNode, lastClickNode, connectingFrom.node, connectingTo.node})
    \ {Null}

Store(no, co, ao) ==
  /\ connObj' = [r \in LiveConns' |-> co[r]]
  /\ areaObj' = [r \in LiveAreas' |-> ao[r]]
  /\ nodeObj' = [r \in LiveNodes' |-> no[r]]

(* objects that stay referenced by the controller when the collections are
   rebuilt (the selection is cleared by every rebuild that uses these) *)
KeptConns == {reconnectingConnection} \ {Null}

KeptNodes ==
  ({connObj[c].fromNode : c \in KeptConns}
     \cup {connObj[c].toNode : c \in KeptConns}
     \cup {connectionStart, editingNode, draggingNode, resizingNode,
           lastClickNode, connectingFrom.node, connectingTo.node})
    \ {Null}

FirstSuch(s, P(_)) ==
  IF \E i \in 1..Len(s) : P(s[i])
  THEN s[CHOOSE i \in 1..Len(s) : P(s[i]) /\ \A j \in 1..(i - 1) : ~P(s[j])]
  ELSE Null


----------------------------------------------------------------------------
(* Identifiers: "node-3" is [sep |-> "-", n |-> 3] *)

MakeId(sep, n) == [sep |-> sep, n |-> n]

(* parseInt(id.split(sep)[1]) || 0 *)
ParseSuffix(id, sep) == IF id.sep = sep THEN id.n ELSE 0

----------------------------------------------------------------------------
(* Pan/zoom canvas (part_001): history *)

Snapshot_pz(ns, cs, no, co) ==
  [nodes |-> [i \in 1..Len(ns) |-> no[ns[i]]],
   connections |->
     [i \in 1..Len(cs) |->
        [id |-> co[cs[i]].id,
         fromNodeId |-> no[co[cs[i]].fromNode].id,
         fromPort |-> co[cs[i]].fromPort,
         toNodeId |-> no[co[cs[i]].toNode].id,
         toPort |-> co[cs[i]].toPort]]]

(* a saveState that pushes without slicing off the undone snapshots *)
saveState_pz_noSlice(h, idx, state) ==
  LET pushed == Append(h, state)
  IN IF Len(pushed) > maxHistorySize
     THEN [history |-> Tail(pushed), historyIndex |-> idx]
     ELSE [history |-> pushed, historyIndex |-> idx + 1]

(* history.slice(0, historyIndex + 1); push; shift on overflow, else index++ *)
saveState_pz(h, idx, state) ==
  LET pushed == Append(SubSeq(h, 1, idx + 1), state)
  IN IF Len(pushed) > maxHistorySize
     THEN [history |-> Tail(pushed), historyIndex |-> idx]
     ELSE [history |-> pushed, historyIndex |-> idx + 1]

Commit_pz(ns, cs, no, co) ==
  LET r == saveState_pz(history, historyIndex, Snapshot_pz(ns, cs, no, co))
  IN /\ history' = r.history
     /\ historyIndex' = r.historyIndex

(* restoreState: fresh Node objects, connections relinked through nodeMap *)
restoreState_pz(state) ==
  LET nrefs == FreshRefs(KeptNodes, Len(state.nodes))
      no    == [r \in Range(nrefs) |->
                  LET i == CHOOSE j \in 1..Len(nrefs) : nrefs[j] = r
                  IN [id |-> state.nodes[i].id, type |-> state.nodes[i].type,
                      x |-> state.nodes[i].x, y |-> state.nodes[i].y,
                      text |-> state.nodes[i].text,
                      width |-> state.nodes[i].width,
                      height |-> state.nodes[i].height]]
      nodeMap(id) ==
        IF \E i \in 1..Len(state.nodes) : state.nodes[i].id = id
        THEN nrefs[CHOOSE i \in 1..Len(state.nodes) :
                     /\ state.nodes[i].id = id
                     /\ \A j \in (i + 1)..Len(state.nodes) : state.nodes[j].id # id]
        ELSE Null
      keptIdx == SelectSeq([i \in 1..Len(state.connections) |-> i],
                   LAMBDA i : /\ nodeMap(state.connections[i].fromNodeId) # Null
                              /\ nodeMap(state.connections[i].toNodeId) # Null)
      crefs == FreshRefs(KeptConns, Len(keptIdx))
      co    == [r \in Range(crefs) |->
                  LET k == CHOOSE j \in 1..Len(crefs) : crefs[j] = r
                      d == state.connections[keptIdx[k]]
                  IN NewConnection(d.id, nodeMap(d.fromNodeId), d.fromPort,
                                   nodeMap(d.toNodeId), d.toPort)]
      maxNodeId == MaxOfSeq([i \in 1..Len(state.nodes) |->
                               ParseSuffix(state.nodes[i].id, "-")], 0)
      maxConnId == MaxOfSeq([i \in 1..Len(state.connections) |->
                               ParseSuffix(state.connections[i].id, "-")], 0)
  IN [nodes |-> nrefs, nodeObj |-> no, connections |-> crefs, connObj |-> co,
      nodeIdCounter |-> maxNodeId + 1, connectionIdCounter |-> maxConnId + 1]

Restore_pz(state) ==
  LET r == restoreState_pz(state)
  IN /\ nodes' = r.nodes
     /\ connections' = r.connections
     /\ nodeIdCounter' = r.nodeIdCounter
     /\ connectionIdCounter' = r.connectionIdCounter
     /\ selectedNode' = Null
     /\ selectedConnection' = Null
     /\ UNCHANGED <<areas, areaIdCounter, selectedArea, isPanning, resizeHandle,
                    pzVars, arVars>>
     /\ Store(r.nodeObj @@ nodeObj, r.connObj @@ connObj, areaObj)

undo_pz ==
  IF historyIndex > 0
  THEN /\ historyIndex' = historyIndex - 1
       /\ history' = history
       /\ Restore_pz(history[historyIndex])
  ELSE UNCHANGED <<objVars, sceneVars, idVars, selVars, histVars, isPanning,
                   resizeHandle, pzVars, arVars>>

redo_pz ==
  IF historyIndex < Len(history) - 1
  THEN /\ historyIndex' = historyIndex + 1
       /\ history' = history
       /\ Restore_pz(history[historyIndex + 2])
  ELSE UNCHANGED <<objVars, sceneVars, idVars, selVars, histVars, isPanning,
                   resizeHandle, pzVars, arVars>>

----------------------------------------------------------------------------
(* Pan/zoom canvas: scene operations *)

keepAr == UNCHANGED <<areas, areaIdCounter, selectedArea, arVars>>

addNode_pz(type, text, x, y) ==
  LET r  == FreshRefs(DOMAIN nodeObj, 1)[1]
      no == (r :> NewNode(MakeId("-", nodeIdCounter), type, x, y, text)) @@ nodeObj
      ns == Append(nodes, r)
  IN /\ Len(nodes) < MaxNodes
     /\ nodes' = ns
     /\ nodeIdCounter' = nodeIdCounter + 1
     /\ Commit_pz(ns, connections, no, connObj)
     /\ UNCHANGED <<connections, connectionIdCounter, selectedNode,
                    selectedConnection, isPanning, resizeHandle, pzVars>>
     /\ keepAr
     /\ Store(no, connObj, areaObj)
     /\ threw' = FALSE

(* the result of addConnection: null for a self-connection or an exact
   duplicate, otherwise the new connection appended to the list *)
addConnection_pz(fromNode, fromPort, toNode, toPort) ==
  LET duplicate == \E i \in 1..Len(connections) :
                     /\ connObj[connections[i]].fromNode = fromNode
                     /\ connObj[connections[i]].toNode = toNode
                     /\ connObj[connections[i]].fromPort = fromPort
                     /\ connObj[connections[i]].toPort = toPort
      r == FreshRefs(DOMAIN connObj, 1)[1]
  IN IF fromNode = toNode \/ duplicate
     THEN [created |-> FALSE, connections |-> connections, connObj |-> connObj,
           connectionIdCounter |-> connectionIdCounter]
     ELSE [created |-> TRUE,
           connections |-> Append(connections, r),
           connObj |-> (r :> NewConnection(MakeId("-", connectionIdCounter),
                                           fromNode, fromPort, toNode, toPort))
                         @@ connObj,
           connectionIdCounter |-> connectionIdCounter + 1]

(* applies an addConnection result: render(); saveState() when created *)
ApplyAddConnection_pz(a) ==
  /\ a.created => Len(connections) < MaxConns
  /\ connections' = a.connections
  /\ connectionIdCounter' = a.connectionIdCounter
  /\ IF a.created THEN Commit_pz(nodes, a.connections, nodeObj, a.connObj)
     ELSE UNCHANGED histVars

AddConnectionCall_pz(fromNode, fromPort, toNode, toPort) ==
  LET a == addConnection_pz(fromNode, fromPort, toNode, toPort)
  IN /\ ApplyAddConnection_pz(a)
     /\ UNCHANGED <<nodes, nodeIdCounter, selectedNode, selectedConnection,
                    isPanning, resizeHandle, pzVars>>
     /\ keepAr
     /\ Store(nodeObj, a.connObj, areaObj)
     /\ threw' = FALSE

deleteNode_pz(node) ==
  LET cs == SelectSeq(connections,
              LAMBDA c : connObj[c].fromNode # node /\ connObj[c].toNode # node)
      ns == SelectSeq(nodes, LAMBDA n : n # node)
  IN /\ connections' = cs
     /\ nodes' = ns
     /\ selectedNode' = Null
     /\ Commit_pz(ns, cs, nodeObj, connObj)
     /\ UNCHANGED <<nodeIdCounter, connectionIdCounter, selectedConnection,
                    isPanning, resizeHandle, pzVars>>
     /\ keepAr
     /\ Store(nodeObj, connObj, areaObj)

deleteConnection_pz(connection) ==
  LET cs == SelectSeq(connections, LAMBDA c : c # connection)
  IN /\ connections' = cs
     /\ selectedConnection' = Null
     /\ Commit_pz(nodes, cs, nodeObj, connObj)
     /\ UNCHANGED <<nodes, nodeIdCounter, connectionIdCounter, selectedNode,
                    isPanning, resizeHandle, pzVars>>
     /\ keepAr
     /\ Store(nodeObj, connObj, areaObj)

getConnectionEndpointAt(x, y) ==
  LET nearStart(c) ==
        LET p == getPortPosition(nodeObj[connObj[c].fromNode], connObj[c].fromPort)
        IN Dist2(x, y, p.x, p.y) < endpointThreshold * endpointThreshold
      nearEnd(c) ==
        LET p == getPortPosition(nodeObj[connObj[c].toNode], connObj[c].toPort)
        IN Dist2(x, y, p.x, p.y) < endpointThreshold * endpointThreshold
      hit(c) == nearStart(c) \/ nearEnd(c)
      conn == FirstSuch(connections, hit)
  IN [connection |-> conn,
      endpoint |-> IF conn = Null THEN "none"
                   ELSE IF nearStart(conn) THEN "start" ELSE "end"]

----------------------------------------------------------------------------
(* Pan/zoom canvas: pointer handlers *)

keepScene_pz == UNCHANGED <<nodes, connections, nodeIdCounter, connectionIdCounter>>

startPanning ==
  /\ isPanning' = TRUE
  /\ UNCHANGED <<resizeHandle, pzVars, histVars>>
  /\ keepScene_pz

startResizing(handle, x, y) ==
  /\ isResizing' = TRUE
  /\ resizeHandle' = handle.position
  /\ resizeStartWidth' = nodeObj[selectedNode].width
  /\ resizeStartHeight' = nodeObj[selectedNode].height
  /\ resizeStartX' = x
  /\ resizeStartY' = y
  /\ resizeStartNodeX' = nodeObj[selectedNode].x
  /\ resizeStartNodeY' = nodeObj[selectedNode].y
  /\ UNCHANGED <<selectedNode, selectedConnection, isPanning, dragVars, conVars,
                 rcnVars, editingNode, histVars>>
  /\ keepScene_pz
  /\ Store(nodeObj, connObj, areaObj)

startReconnecting(endpoint, x, y) ==
  /\ isReconnecting' = TRUE
  /\ reconnectingConnection' = endpoint.connection
  /\ reconnectingEnd' = endpoint.endpoint
  /\ selectedConnection' = endpoint.connection
  /\ selectedNode' = Null
  /\ UNCHANGED <<isPanning, resizeHandle, dragVars, rszVars, conVars,
                 editingNode, histVars>>
  /\ keepScene_pz
  /\ Store(nodeObj, connObj, areaObj)

startConnecting(node, connectionPoint, x, y) ==
  /\ isConnecting' = TRUE
  /\ connectionStart' = node
  /\ connectionStartPort' = connectionPoint.position
  /\ UNCHANGED <<selectedNode, selectedConnection, isPanning, resizeHandle,
                 dragVars, rszVars, rcnVars, editingNode, histVars>>
  /\ keepScene_pz
  /\ Store(nodeObj, connObj, areaObj)

startDragging(node, x, y) ==
  /\ selectedNode' = node
  /\ selectedConnection' = Null
  /\ isDragging' = TRUE
  /\ dragOffsetX' = x - nodeObj[node].x
  /\ dragOffsetY' = y - nodeObj[node].y
  /\ UNCHANGED <<isPanning, resizeHandle, rszVars, conVars, rcnVars,
                 editingNode, histVars>>
  /\ keepScene_pz
  /\ Store(nodeObj, connObj, areaObj)

selectConnection(conn) ==
  /\ selectedConnection' = conn
  /\ selectedNode' = Null
  /\ UNCHANGED <<isPanning, resizeHandle, pzVars, histVars>>
  /\ keepScene_pz
  /\ Store(nodeObj, connObj, areaObj)

handleMouseDown_pz(button, x, y) ==
  LET handle == IF selectedNode # Null
                THEN isOnResizeHandle(nodeObj[selectedNode], x, y)
                ELSE NoPoint
      endpoint == getConnectionEndpointAt(x, y)
      onPoint(n) == isOnConnectionPoint(nodeObj[n], x, y).position # "none"
      inBody(n)  == containsPoint(nodeObj[n], x, y)
      near(c)    == isNearPoint(connObj[c], x, y)
      portNode == FirstSuch(nodes, onPoint)
      bodyNode == FirstSuch(nodes, inBody)
      nearConn == FirstSuch(connections, near)
  IN /\ keepAr
     /\ threw' = FALSE
     /\ IF button = 1
        THEN /\ startPanning
             /\ UNCHANGED <<selectedNode, selectedConnection>>
             /\ Store(nodeObj, connObj, areaObj)
        ELSE IF button # 0
        THEN UNCHANGED <<objVars, nodes, connections, nodeIdCounter,
                         connectionIdCounter, selectedNode, selectedConnection,
                         histVars, isPanning, resizeHandle, pzVars>>
        ELSE IF handle.position # "none" THEN startResizing(handle, x, y)
        ELSE IF endpoint.connection # Null THEN startReconnecting(endpoint, x, y)
        ELSE IF portNode # Null
        THEN startConnecting(portNode, isOnConnectionPoint(nodeObj[portNode], x, y), x, y)
        ELSE IF bodyNode # Null THEN startDragging(bodyNode, x, y)
        ELSE IF nearConn # Null THEN selectConnection(nearConn)
        ELSE /\ startPanning
             /\ selectedNode' = Null
             /\ selectedConnection' = Null
             /\ Store(nodeObj, connObj, areaObj)

(* updateResize without the minimum size *)
updateResize_noClamp(n, x, y) ==
  LET dx == x - resizeStartX
      dy == y - resizeStartY
      left == resizeHandle = "top-left" \/ resizeHandle = "bottom-left"
      top  == resizeHandle = "top-left" \/ resizeHandle = "top-right"
      w == IF left THEN resizeStartWidth - dx ELSE resizeStartWidth + dx
      h == IF top THEN resizeStartHeight - dy ELSE resizeStartHeight + dy
  IN [n EXCEPT !.width = w, !.height = h,
               !.x = IF left THEN resizeStartNodeX - (resizeStartWidth - w) \div 2
                     ELSE resizeStartNodeX + (w - resizeStartWidth) \div 2,
               !.y = IF top THEN resizeStartNodeY - (resizeStartHeight - h) \div 2
                     ELSE resizeStartNodeY + (h - resizeStartHeight) \div 2]

(* updateResize: the new size and centre for a handle and pointer position *)
updateResize(n, x, y) ==
  LET dx == x - resizeStartX
      dy == y - resizeStartY
      minWidth  == 60
      minHeight == 40
      wMinus == Max2(minWidth, resizeStartWidth - dx)
      wPlus  == Max2(minWidth, resizeStartWidth + dx)
      hMinus == Max2(minHeight, resizeStartHeight - dy)
      hPlus  == Max2(minHeight, resizeStartHeight + dy)
  IN CASE resizeHandle = "top-left" ->
            [n EXCEPT !.width = wMinus, !.height = hMinus,
                      !.x = resizeStartNodeX - (resizeStartWidth - wMinus) \div 2,
                      !.y = resizeStartNodeY - (resizeStartHeight - hMinus) \div 2]
       [] resizeHandle = "top-right" ->
            [n EXCEPT !.width = wPlus, !.height = hMinus,
                      !.x = resizeStartNodeX + (wPlus - resizeStartWidth) \div 2,
                      !.y = resizeStartNodeY - (resizeStartHeight - hMinus) \div 2]
       [] resizeHandle = "bottom-right" ->
            [n EXCEPT !.width = wPlus, !.height = hPlus,
                      !.x = resizeStartNodeX + (wPlus - resizeStartWidth) \div 2,
                      !.y = resizeStartNodeY + (hPlus - resizeStartHeight) \div 2]
       [] resizeHandle = "bottom-left" ->
            [n EXCEPT !.width = wMinus, !.height = hPlus,
                      !.x = resizeStartNodeX - (resizeStartWidth - wMinus) \div 2,
                      !.y = resizeStartNodeY + (hPlus - resizeStartHeight) \div 2]
       [] OTHER -> n

handleMouseMove_pz(x, y) ==
  /\ keepAr
  /\ keepScene_pz
  /\ UNCHANGED <<selectedNode, selectedConnection, histVars, isPanning,
                 resizeHandle, pzVars>>
  /\ IF isPanning THEN threw' = FALSE /\ Store(nodeObj, connObj, areaObj)
     ELSE IF isResizing
     THEN IF selectedNode = Null
          THEN threw' = TRUE /\ Store(nodeObj, connObj, areaObj)
          ELSE /\ threw' = FALSE
               /\ Store([nodeObj EXCEPT ![selectedNode] =
                           updateResize(nodeObj[selectedNode], x, y)],
                        connObj, areaObj)
     ELSE IF isReconnecting \/ isConnecting
     THEN threw' = FALSE /\ Store(nodeObj, connObj, areaObj)
     ELSE IF isDragging /\ selectedNode # Null
     THEN /\ threw' = FALSE
          /\ Store([nodeObj EXCEPT ![selectedNode].x = x - dragOffsetX,
                                   ![selectedNode].y = y - dragOffsetY],
                   connObj, areaObj)
     ELSE threw' = FALSE /\ Store(nodeObj, connObj, areaObj)

finishPanning ==
  /\ isPanning' = FALSE
  /\ UNCHANGED <<selectedNode, selectedConnection, histVars, resizeHandle, pzVars>>
  /\ keepScene_pz
  /\ Store(nodeObj, connObj, areaObj)

finishResizing ==
  /\ isResizing' = FALSE
  /\ resizeHandle' = "none"
  /\ Commit_pz(nodes, connections, nodeObj, connObj)
  /\ UNCHANGED <<selectedNode, selectedConnection, isPanning, dragVars,
                 resizeStartWidth, resizeStartHeight, resizeStartX, resizeStartY,
                 resizeStartNodeX, resizeStartNodeY, conVars, rcnVars, editingNode>>
  /\ keepScene_pz
  /\ Store(nodeObj, connObj, areaObj)

(* the connection object after a reconnect drop at (x, y), and whether the
   drop relinked it *)
reconnectDrop(x, y) ==
  LET inBody(n) == containsPoint(nodeObj[n], x, y)
      node == FirstSuch(nodes, inBody)
      rc   == connObj[reconnectingConnection]
      closestPoint == getClosestConnectionPoint(nodeObj[node], x, y)
  IN IF node = Null THEN [relinked |-> FALSE, conn |-> rc]
     ELSE IF reconnectingEnd = "start"
     THEN IF node # rc.toNode
          THEN [relinked |-> TRUE,
                conn |-> [rc EXCEPT !.fromNode = node,
                                    !.fromPort = closestPoint.position]]
          ELSE [relinked |-> FALSE, conn |-> rc]
     ELSE IF node # rc.fromNode
          THEN [relinked |-> TRUE,
                conn |-> [rc EXCEPT !.toNode = node,
                                    !.toPort = closestPoint.position]]
          ELSE [relinked |-> FALSE, conn |-> rc]

finishReconnecting(x, y) ==
  LET d  == reconnectDrop(x, y)
      co == [connObj EXCEPT ![reconnectingConnection] = d.conn]
  IN /\ IF d.relinked THEN Commit_pz(nodes, connections, nodeObj, co)
        ELSE UNCHANGED histVars
     /\ isReconnecting' = FALSE
     /\ reconnectingConnection' = Null
     /\ reconnectingEnd' = "none"
     /\ UNCHANGED <<selectedNode, selectedConnection, isPanning, resizeHandle,
                    dragVars, rszVars, conVars, editingNode>>
     /\ keepScene_pz
     /\ Store(nodeObj, co, areaObj)

finishConnecting(x, y) ==
  LET target(n) == n # connectionStart /\ containsPoint(nodeObj[n], x, y)
      node == FirstSuch(nodes, target)
      closestPoint == getClosestConnectionPoint(nodeObj[node], x, y)
      a == IF node = Null
           THEN [created |-> FALSE, connections |-> connections,
                 connObj |-> connObj, connectionIdCounter |-> connectionIdCounter]
           ELSE addConnection_pz(connectionStart, connectionStartPort, node,
                                 closestPoint.position)
  IN /\ ApplyAddConnection_pz(a)
     /\ isConnecting' = FALSE
     /\ connectionStart' = Null
     /\ connectionStartPort' = "none"
     /\ UNCHANGED <<nodes, nodeIdCounter, selectedNode, selectedConnection,
                    isPanning, resizeHandle, dragVars, rszVars, rcnVars, editingNode>>
     /\ Store(nodeObj, a.connObj, areaObj)

finishDragging ==
  /\ isDragging' = FALSE
  /\ Commit_pz(nodes, connections, nodeObj, connObj)
  /\ UNCHANGED <<selectedNode, selectedConnection, isPanning, resizeHandle,
                 dragOffsetX, dragOffsetY, rszVars, conVars, rcnVars, editingNode>>
  /\ keepScene_pz
  /\ Store(nodeObj, connObj, areaObj)

handleMouseUp_pz(x, y) ==
  /\ keepAr
  /\ threw' = FALSE
  /\ IF isPanning THEN finishPanning
     ELSE IF isResizing THEN finishResizing
     ELSE IF isReconnecting THEN finishReconnecting(x, y)
     ELSE IF isConnecting THEN finishConnecting(x, y)
     ELSE IF isDragging THEN finishDragging
     ELSE UNCHANGED <<objVars, nodes, connections, nodeIdCounter,
                      connectionIdCounter, selectedNode, selectedConnection,
                      histVars, isPanning, resizeHandle, pzVars>>

----------------------------------------------------------------------------
(* Pan/zoom canvas: keyboard handler *)

handleKeyDown_pz(key) ==
  /\ keepAr
  /\ threw' = FALSE
  /\ IF editingNode # Null
     THEN UNCHANGED <<objVars, nodes, connections, nodeIdCounter,
                      connectionIdCounter, selectedNode, selectedConnection,
                      histVars, isPanning, resizeHandle, pzVars>>
     ELSE CASE key = "undo" -> undo_pz
            [] key = "redo" -> redo_pz
            [] key = "Delete" ->
                 IF selectedNode # Null THEN deleteNode_pz(selectedNode)
                 ELSE IF selectedConnection # Null
                 THEN deleteConnection_pz(selectedConnection)
                 ELSE UNCHANGED <<objVars, nodes, connections, nodeIdCounter,
                                  connectionIdCounter, selectedNode,
                                  selectedConnection, histVars, isPanning,
                                  resizeHandle, pzVars>>

----------------------------------------------------------------------------
(* Exact fractions [n |-> numerator, d |-> denominator], in lowest terms
   with a positive denominator: the numbers of the pan and zoom state.
   Each operation takes its operands from one-element sets, so that an
   operand is worked out once however often the operation reads it. *)

RECURSIVE GCD(_, _)
GCD(a, b) ==
  IF b = 0 THEN a ELSE CHOOSE g \in {GCD(b, r) : r \in {a % b}} : TRUE

LowestTerms(n, d) ==
  LET g == GCD(Abs(n), Abs(d))
      sg == IF d < 0 THEN -1 ELSE 1
  IN [n |-> sg * (n \div g), d |-> sg * (d \div g)]

Rat(n, d) == CHOOSE r \in {LowestTerms(nv, dv) : nv \in {n}, dv \in {d}} : TRUE

FromInt(i) == [n |-> i, d |-> 1]

SumOf(a, b) ==
  LET l == (a.d \div GCD(a.d, b.d)) * b.d
  IN Rat(a.n * (l \div a.d) + b.n * (l \div b.d), l)

RatAdd(a, b) == CHOOSE r \in {SumOf(av, bv) : av \in {a}, bv \in {b}} : TRUE

RatNeg(a) == CHOOSE r \in {[n |-> -av.n, d |-> av.d] : av \in {a}} : TRUE
RatSub(a, b) == RatAdd(a, RatNeg(b))

ProductOf(a, b) ==
  LET g1 == GCD(Abs(a.n), b.d)
      g2 == GCD(Abs(b.n), a.d)
  IN Rat((a.n \div g1) * (b.n \div g2), (a.d \div g2) * (b.d \div g1))

RatMul(a, b) == CHOOSE r \in {ProductOf(av, bv) : av \in {a}, bv \in {b}} : TRUE

RatDiv(a, b) ==
  CHOOSE r \in {ProductOf(av, Rat(bv.d, bv.n)) : av \in {a}, bv \in {b}} : TRUE

RatLess(a, b) ==
  CHOOSE r \in {av.n * bv.d < bv.n * av.d : av \in {a}, bv \in {b}} : TRUE
RatLeq(a, b) ==
  CHOOSE r \in {av.n * bv.d <= bv.n * av.d : av \in {a}, bv \in {b}} : TRUE
RatMin(a, b) ==
  CHOOSE r \in {IF RatLess(bv, av) THEN bv ELSE av : av \in {a}, bv \in {b}} : TRUE
RatMax(a, b) ==
  CHOOSE r \in {IF RatLess(av, bv) THEN bv ELSE av : av \in {a}, bv \in {b}} : TRUE

----------------------------------------------------------------------------
(* Pan and zoom *)

(* the options of the constructor that the pan and zoom code reads *)
DefaultOptions ==
  [mode |-> "edit", readonly |-> FALSE, minZoom |-> Rat(1, 10),
   maxZoom |-> FromInt(5)]

InitView ==
  /\ zoom = FromInt(1) /\ panX = FromInt(0) /\ panY = FromInt(0)
  /\ options = DefaultOptions
  /\ logicalWidth = 800 /\ logicalHeight = 600

screenToWorld(screenX, screenY) ==
  [x |-> RatDiv(RatSub(FromInt(screenX), panX), zoom),
   y |-> RatDiv(RatSub(FromInt(screenY), panY), zoom)]

keepCanvas ==
  /\ UNCHANGED <<sceneVars, idVars, selVars, histVars, isPanning, resizeHandle,
                 pzVars, arGesture, arMark, arClick, variant, clipboard,
                 routed, pathPoints, clockVars, options, logicalWidth,
                 logicalHeight>>
  /\ Store(nodeObj, connObj, areaObj)
  /\ threw' = FALSE

(* zoomAt without the correction of the pan *)
zoomAt_noPan(x, y, delta) ==
  LET zoomFactor == IF delta > 0 THEN Rat(11, 10) ELSE Rat(9, 10)
  IN /\ zoom' = RatMax(options.minZoom,
                       RatMin(options.maxZoom, RatMul(zoom, zoomFactor)))
     /\ UNCHANGED <<panX, panY>>
     /\ keepCanvas

(* zoomAt: the zoom after the step is the zoom times 1.1 or 0.9 brought into
   [minZoom, maxZoom]; the pan is moved by the difference of the world
   positions of (x, y) under the new zoom and under the old one *)
zoomAt(x, y, delta) ==
  LET before     == screenToWorld(x, y)
      zoomFactor == IF delta > 0 THEN Rat(11, 10) ELSE Rat(9, 10)
      newZoom    == RatMax(options.minZoom,
                           RatMin(options.maxZoom, RatMul(zoom, zoomFactor)))
      afterX     == RatDiv(RatSub(FromInt(x), panX), newZoom)
      afterY     == RatDiv(RatSub(FromInt(y), panY), newZoom)
  IN /\ zoom' = newZoom
     /\ panX' = RatAdd(panX, RatMul(RatSub(afterX, before.x), newZoom))
     /\ panY' = RatAdd(panY, RatMul(RatSub(afterY, before.y), newZoom))
     /\ keepCanvas

handleWheel_pz(x, y, deltaY) == zoomAt(x, y, -deltaY)

(* handleWheel of the area-enabled canvas, with its fixed limits *)
handleWheel_ar(mouseX, mouseY, deltaY) ==
  LET world      == screenToWorld(mouseX, mouseY)
      zoomFactor == IF deltaY < 0 THEN Rat(11, 10) ELSE Rat(9, 10)
      newZoom    == RatMax(Rat(1, 10),
                           RatMin(FromInt(5), RatMul(zoom, zoomFactor)))
  IN /\ panX' = RatSub(FromInt(mouseX), RatMul(world.x, newZoom))
     /\ panY' = RatSub(FromInt(mouseY), RatMul(world.y, newZoom))
     /\ zoom' = newZoom
     /\ keepCanvas

resetView ==
  /\ panX' = FromInt(0) /\ panY' = FromInt(0) /\ zoom' = FromInt(1)
  /\ keepCanvas

RECURSIVE FoldNodes(_, _, _, _)
FoldNodes(f(_), pick(_, _), i, acc) ==
  IF i > Len(nodes) THEN acc
  ELSE FoldNodes(f, pick, i + 1, pick(acc, f(nodeObj[nodes[i]])))

fitToContent ==
  IF nodes = <<>>
  THEN UNCHANGED <<zoom, panX, panY>> /\ keepCanvas
  ELSE LET lo(a, b) == IF b < a THEN b ELSE a
           hi(a, b) == IF b > a THEN b ELSE a
           left(n)   == 2 * n.x - n.width
           right(n)  == 2 * n.x + n.width
           top(n)    == 2 * n.y - n.height
           bottom(n) == 2 * n.y + n.height
           first == nodeObj[nodes[1]]
           minX == Rat(FoldNodes(left, lo, 2, left(first)), 2)
           maxX == Rat(FoldNodes(right, hi, 2, right(first)), 2)
           minY == Rat(FoldNodes(top, lo, 2, top(first)), 2)
           maxY == Rat(FoldNodes(bottom, hi, 2, bottom(first)), 2)
           contentWidth  == RatSub(maxX, minX)
           contentHeight == RatSub(maxY, minY)
           padding == 50
           zoomX == RatDiv(FromInt(logicalWidth - padding * 2), contentWidth)
           zoomY == RatDiv(FromInt(logicalHeight - padding * 2), contentHeight)
           newZoom == RatMin(RatMin(zoomX, zoomY), FromInt(1))
           centerX == RatDiv(RatAdd(minX, maxX), FromInt(2))
           centerY == RatDiv(RatAdd(minY, maxY), FromInt(2))
       IN /\ zoom' = newZoom
          /\ panX' = RatSub(Rat(logicalWidth, 2), RatMul(centerX, newZoom))
          /\ panY' = RatSub(Rat(logicalHeight, 2), RatMul(centerY, newZoom))
          /\ keepCanvas

----------------------------------------------------------------------------
(* Pan/zoom canvas: construction *)

EmptyPoint == [node |-> Null, point |-> NoPoint]
NoTarget   == [set |-> FALSE, node |-> Null, position |-> "none"]
NoXY       == [set |-> FALSE, x |-> 0, y |-> 0]

InitAreaCanvasFields ==
  /\ areas = <<>> /\ areaObj = <<>> /\ areaIdCounter = 1 /\ selectedArea = Null
  /\ draggingNode = Null /\ draggingArea = Null
  /\ resizingNode = Null /\ resizingArea = Null
  /\ resizeStart = [x |-> 0, y |-> 0] /\ dragStart = [x |-> 0, y |-> 0]
  /\ connectingFrom = EmptyPoint /\ connectingTo = NoTarget
  /\ markingArea = FALSE /\ areaStart = NoXY /\ areaEnd = NoXY
  /\ lastClickNode = Null /\ lastClickArea = Null /\ spacePressed = FALSE

InitPanZoomFields ==
  /\ isDragging = FALSE /\ dragOffsetX = 0 /\ dragOffsetY = 0
  /\ isResizing = FALSE /\ resizeStartWidth = 0 /\ resizeStartHeight = 0
  /\ resizeStartX = 0 /\ resizeStartY = 0
  /\ resizeStartNodeX = 0 /\ resizeStartNodeY = 0
  /\ isConnecting = FALSE /\ connectionStart = Null /\ connectionStartPort = "none"
  /\ isReconnecting = FALSE /\ reconnectingConnection = Null
  /\ reconnectingEnd = "none"
  /\ editingNode = Null

(* the page's clock at construction, no click recorded yet *)
InitClock ==
  /\ now = 1000
  /\ lastClickTime = 0
  /\ lastDown = [on |-> "none", node |-> -1, area |-> -1]

InitCanvas_pz ==
  /\ nodeObj = <<>> /\ connObj = <<>>
  /\ nodes = <<>> /\ connections = <<>>
  /\ nodeIdCounter = 0 /\ connectionIdCounter = 0
  /\ selectedNode = Null /\ selectedConnection = Null
  /\ isPanning = FALSE /\ resizeHandle = "none"
  /\ InitPanZoomFields
  /\ InitAreaCanvasFields
  /\ history = saveState_pz(<<>>, -1, Snapshot_pz(<<>>, <<>>, <<>>, <<>>)).history
  /\ historyIndex = saveState_pz(<<>>, -1, Snapshot_pz(<<>>, <<>>, <<>>, <<>>)).historyIndex
  /\ variant = "pz"
  /\ clipboard = NoClip
  /\ InitClock
  /\ threw = FALSE

Init_pz == InitCanvas_pz /\ InitView /\ routed = NoRoute /\ pathPoints = <<>>

----------------------------------------------------------------------------
(* Pan/zoom canvas: clear and import *)

clear_pz ==
  /\ nodes' = <<>>
  /\ connections' = <<>>
  /\ selectedNode' = Null
  /\ selectedConnection' = Null
  /\ nodeIdCounter' = 0
  /\ connectionIdCounter' = 0
  /\ UNCHANGED <<histVars, isPanning, resizeHandle, pzVars>>
  /\ keepAr
  /\ Store(nodeObj, connObj, areaObj)
  /\ threw' = FALSE

(* clear(), then the same reconstruction as restoreState; no saveState *)
importFromJSON_pz(data) ==
  /\ Restore_pz(data)
  /\ UNCHANGED histVars
  /\ threw' = FALSE

----------------------------------------------------------------------------
(* Pan/zoom canvas: copy and paste *)

pasteOffset == 30

(* the centre of the viewport in world coordinates (pan 0, zoom 1) *)
viewCentre == [x |-> 600, y |-> 400]

copySelected_pz ==
  /\ clipboard' =
       IF selectedNode # Null
       THEN [type |-> "node",
             data |-> [type |-> nodeObj[selectedNode].type,
                       text |-> nodeObj[selectedNode].text,
                       width |-> nodeObj[selectedNode].width,
                       height |-> nodeObj[selectedNode].height]]
       ELSE clipboard
  /\ UNCHANGED <<sceneVars, idVars, selVars, histVars, isPanning, resizeHandle,
                 pzVars, arGesture, arMark, arClick, variant, routed, pathPoints,
                 clockVars, viewVars>>
  /\ Store(nodeObj, connObj, areaObj)
  /\ threw' = FALSE

(* addNode (which commits), the copied size, the selection, saveState *)
paste_pz ==
  IF clipboard.type = "node"
  THEN LET data == clipboard.data
           r    == FreshRefs(DOMAIN nodeObj, 1)[1]
           at   == IF selectedNode # Null
                   THEN [x |-> nodeObj[selectedNode].x + pasteOffset,
                         y |-> nodeObj[selectedNode].y + pasteOffset]
                   ELSE viewCentre
           no1  == (r :> NewNode(MakeId("-", nodeIdCounter), data.type,
                                 at.x, at.y, data.text)) @@ nodeObj
           ns   == Append(nodes, r)
           h1   == saveState_pz(history, historyIndex,
                                Snapshot_pz(ns, connections, no1, connObj))
           no2  == [no1 EXCEPT ![r].width = data.width, ![r].height = data.height]
           h2   == saveState_pz(h1.history, h1.historyIndex,
                                Snapshot_pz(ns, connections, no2, connObj))
       IN /\ nodes' = ns
          /\ nodeIdCounter' = nodeIdCounter + 1
          /\ selectedNode' = r
          /\ history' = h2.history
          /\ historyIndex' = h2.historyIndex
          /\ UNCHANGED <<connections, connectionIdCounter, selectedConnection,
                         isPanning, resizeHandle, pzVars>>
          /\ keepAr
          /\ Store(no2, connObj, areaObj)
          /\ threw' = FALSE
  ELSE /\ UNCHANGED <<objVars, sceneVars, idVars, selVars, histVars, isPanning,
                      resizeHandle, pzVars, arVars>>
       /\ threw' = FALSE

----------------------------------------------------------------------------
(* Pan/zoom canvas: connecting, reconnecting, deleting, undo and redo *)

Slots     == <<[x |-> 100, y |-> 100], [x |-> 300, y |-> 100]>>
EmptySpot == [x |-> 600, y |-> 400]

NodeData(n, x, y) ==
  [id |-> MakeId("-", n), type |-> "process", x |-> x, y |-> y, text |-> "A",
   width |-> defaultWidth, height |-> defaultHeight]

ConnData(n, f, fp, t, tp) ==
  [id |-> MakeId("-", n), fromNodeId |-> MakeId("-", f), fromPort |-> fp,
   toNodeId |-> MakeId("-", t), toPort |-> tp]

(* an exported scene: two nodes, two connections between different ports *)
TwoLinked ==
  [nodes |-> <<NodeData(0, 100, 100), NodeData(1, 300, 100)>>,
   connections |-> <<ConnData(0, 0, "right", 1, "top"),
                     ConnData(1, 0, "right", 1, "right")>>]

Docs_pz == {TwoLinked}

(* where the pointer goes: the centre and the right port of every node of
   the scene, and a spot away from everything *)
PointsOf(n) ==
  {[x |-> n.x, y |-> n.y]}
    \cup {[x |-> p.x, y |-> p.y] :
            p \in {q \in Range(getConnectionPoints(n)) :
                     q.position = "right"}}

PointerPoints ==
  {EmptySpot} \cup UNION {PointsOf(nodeObj[n]) : n \in Range(nodes)}

(* room for one more snapshot within the explored history length *)
Bounded == historyIndex + 1 < MaxHist

Idle_pz ==
  ~isPanning /\ ~isDragging /\ ~isResizing /\ ~isConnecting /\ ~isReconnecting

Occupied(s) == \E n \in Range(nodes) : nodeObj[n].x = s.x /\ nodeObj[n].y = s.y

(* a new node goes to the first free slot *)
FreeSlot ==
  Slots[CHOOSE i \in 1..Len(Slots) :
          ~Occupied(Slots[i]) /\ \A j \in 1..(i - 1) : Occupied(Slots[j])]

(* a drag only moves a node onto a free slot *)
DragLandsOnSlot(x, y) ==
  (isDragging /\ selectedNode # Null /\ ~isPanning /\ ~isResizing
     /\ ~isReconnecting /\ ~isConnecting)
    => /\ [x |-> x - dragOffsetX, y |-> y - dragOffsetY] \in Range(Slots)
       /\ ~Occupied([x |-> x - dragOffsetX, y |-> y - dragOffsetY])

AddNode_c ==
  /\ Bounded
  /\ \E i \in 1..Len(Slots) : ~Occupied(Slots[i])
  /\ addNode_pz("process", "A", FreeSlot.x, FreeSlot.y)

AddConnection_c ==
  \E t \in Range(nodes) :
    /\ Bounded
    /\ nodes # <<>>
    /\ AddConnectionCall_pz(nodes[1], "right", t, "top")

Import_c == \E d \in Docs_pz : nodes = <<>> /\ importFromJSON_pz(d)

(* one pointer button: a press starts a gesture, moves and the release
   belong to the gesture in progress *)
MouseDown_c ==
  \E p \in PointerPoints : Idle_pz /\ handleMouseDown_pz(0, p.x, p.y)

MouseMove_c ==
  \E p \in PointerPoints :
    ~Idle_pz /\ DragLandsOnSlot(p.x, p.y) /\ handleMouseMove_pz(p.x, p.y)

MouseUp_c ==
  \E p \in PointerPoints : ~Idle_pz /\ Bounded /\ handleMouseUp_pz(p.x, p.y)

KeyDelete_c == Bounded /\ handleKeyDown_pz("Delete")
KeyUndo_c   == handleKeyDown_pz("undo")
KeyRedo_c   == handleKeyDown_pz("redo")

NextConn ==
  \/ AddNode_c
  \/ AddConnection_c
  \/ Import_c
  \/ MouseDown_c
  \/ MouseMove_c
  \/ MouseUp_c
  \/ KeyDelete_c
  \/ KeyUndo_c
  \/ KeyRedo_c

SpecConn == Init_pz /\ [][NextConn]_vars

Ports == {"top", "right", "bottom", "left"}

(* C6: the pan/zoom canvas never holds a connection whose two ends are the
   same node; addConnection(n, p, n, q) returns null and leaves the list and
   the counter alone; a reconnect drop onto the node at the other end leaves
   the connection as it was and commits nothing *)
C6_NoSelfConnection ==
  /\ \A c \in Range(connections) : connObj[c].fromNode # connObj[c].toNode
  /\ \A n \in Range(nodes) : \A p \in Ports, q \in Ports :
       LET a == addConnection_pz(n, p, n, q)
       IN /\ ~a.created
          /\ a.connections = connections
          /\ a.connectionIdCounter = connectionIdCounter
  /\ (isReconnecting /\ reconnectingConnection \in Range(connections)) =>
       \A pt \in PointerPoints :
         LET rc    == connObj[reconnectingConnection]
             other == IF reconnectingEnd = "start" THEN rc.toNode ELSE rc.fromNode
             first == FirstSuch(nodes, LAMBDA n : containsPoint(nodeObj[n], pt.x, pt.y))
         IN first = other =>
              /\ ~reconnectDrop(pt.x, pt.y).relinked
              /\ reconnectDrop(pt.x, pt.y).conn = rc

(* C7: no two connections of the pan/zoom canvas share
   (fromNode, fromPort, toNode, toPort); adding an exact duplicate returns
   null and commits nothing *)
C7_NoDuplicateConnection ==
  /\ \A i \in 1..Len(connections), j \in 1..Len(connections) :
       (/\ connObj[connections[i]].fromNode = connObj[connections[j]].fromNode
        /\ connObj[connections[i]].fromPort = connObj[connections[j]].fromPort
        /\ connObj[connections[i]].toNode = connObj[connections[j]].toNode
        /\ connObj[connections[i]].toPort = connObj[connections[j]].toPort)
         => i = j
  /\ \A c \in Range(connections) :
       LET a == addConnection_pz(connObj[c].fromNode, connObj[c].fromPort,
                                 connObj[c].toNode, connObj[c].toPort)
       IN ~a.created /\ a.connections = connections

(* C9: in every reachable state of the pan/zoom canvas, also between the
   press and the release of a connect or reconnect gesture, both ends of
   every connection are members of nodes *)
C9_EndpointsAreMembers ==
  \A c \in Range(connections) :
    connObj[c].fromNode \in Range(nodes) /\ connObj[c].toNode \in Range(nodes)

----------------------------------------------------------------------------
(* Area-enabled canvas (index.js): Node settings and Area *)

historyLimit  == 50
titleHeight   == 30
minAreaSize   == 50
minNodeWidth  == 60
minNodeHeight == 40

NewNode_ar(id, type, x, y, text) ==
  [id |-> id, type |-> type, x |-> x, y |-> y, text |-> text,
   width |-> defaultWidth, height |-> defaultHeight,
   link |-> "", fillColor |-> "#FFFFFF", fontColor |-> "#000000",
   fontSize |-> 14, outlineColor |-> "#000000", outlineWidth |-> 2]

SettingsFields ==
  {"text", "link", "fillColor", "fontColor", "fontSize", "outlineColor",
   "outlineWidth"}

(* updateSettings that takes the settings object as the whole new settings:
   a link that is not supplied is cleared *)
updateSettings_replacing(n, settings) ==
  [f \in DOMAIN n |->
     IF f \in SettingsFields /\ f \in DOMAIN settings THEN settings[f]
     ELSE IF f = "link" THEN "" ELSE n[f]]

(* a settings object holds some of the fields; the others are undefined *)
updateSettings(n, settings) ==
  [f \in DOMAIN n |->
     IF f \in SettingsFields /\ f \in DOMAIN settings THEN settings[f] ELSE n[f]]

getSettings(n) == [f \in SettingsFields |-> n[f]]

AreaSettingsFields == {"title", "fillColor", "outlineColor", "titleBgColor"}

(* Area.updateSettings and Area.getSettings *)
Area_updateSettings(a, settings) ==
  [f \in DOMAIN a |->
     IF f \in AreaSettingsFields /\ f \in DOMAIN settings
     THEN settings[f] ELSE a[f]]

Area_getSettings(a) == [f \in AreaSettingsFields |-> a[f]]

NewArea(id, x1, y1, x2, y2, title) ==
  [id |-> id, x1 |-> Min2(x1, x2), y1 |-> Min2(y1, y2),
   x2 |-> Max2(x1, x2), y2 |-> Max2(y1, y2), title |-> title,
   fillColor |-> "rgba(33, 150, 243, 0.1)", outlineColor |-> "#000",
   titleBgColor |-> "#000"]

areaContainsPoint(a, x, y) == x >= a.x1 /\ x <= a.x2 /\ y >= a.y1 /\ y <= a.y2

isOnTitleBar(a, x, y) ==
  x >= a.x1 /\ x <= a.x2 /\ y >= a.y1 - titleHeight /\ y <= a.y1

getAreaResizeHandles(a) ==
  << [x |-> a.x1, y |-> a.y1, position |-> "top-left"],
     [x |-> a.x2, y |-> a.y1, position |-> "top-right"],
     [x |-> a.x2, y |-> a.y2, position |-> "bottom-right"],
     [x |-> a.x1, y |-> a.y2, position |-> "bottom-left"],
     [x |-> (a.x1 + a.x2) \div 2, y |-> a.y1, position |-> "top"],
     [x |-> a.x2, y |-> (a.y1 + a.y2) \div 2, position |-> "right"],
     [x |-> (a.x1 + a.x2) \div 2, y |-> a.y2, position |-> "bottom"],
     [x |-> a.x1, y |-> (a.y1 + a.y2) \div 2, position |-> "left"] >>

isOnAreaResizeHandle(a, x, y) ==
  FirstWithin(getAreaResizeHandles(a), x, y, resizeHandleRadius)

----------------------------------------------------------------------------
(* Area-enabled canvas: serialization, history, reconstruction *)

(* a JSON text is the value it denotes; the values serialized here are
   integers, strings, arrays and objects of those *)
JSONstringify(v) == [json |-> v]
JSONparse(s) == s.json

(* v || d *)
OrNum(v, d) == IF v = 0 THEN d ELSE v
OrStr(v, d) == IF v = "" THEN d ELSE v

(* conn.fromNode.id of a connection with an undefined end is a TypeError *)
Dangling(cs, co) ==
  \E c \in Range(cs) : co[c].fromNode = Null \/ co[c].toNode = Null

(* the object literal that saveState and exportToJSON build *)
SceneData(ns, cs, as, no, co, ao) ==
  [nodes |-> [i \in 1..Len(ns) |-> no[ns[i]]],
   connections |->
     [i \in 1..Len(cs) |->
        [id |-> co[cs[i]].id,
         fromNodeId |-> no[co[cs[i]].fromNode].id,
         fromPort |-> co[cs[i]].fromPort,
         toNodeId |-> no[co[cs[i]].toNode].id,
         toPort |-> co[cs[i]].toPort]],
   areas |-> [i \in 1..Len(as) |-> ao[as[i]]]]

(* a saveState that never shifts the oldest snapshot out *)
saveState_ar_noShift(h, idx, state) ==
  [history |-> Append(SubSeq(h, 1, idx + 1), JSONstringify(state)),
   historyIndex |-> idx + 1]

(* slice(0, historyIndex + 1); push; historyIndex++; shift and
   historyIndex-- past the limit *)
saveState_ar(h, idx, state) ==
  LET pushed == Append(SubSeq(h, 1, idx + 1), JSONstringify(state))
  IN IF Len(pushed) > historyLimit
     THEN [history |-> Tail(pushed), historyIndex |-> (idx + 1) - 1]
     ELSE [history |-> pushed, historyIndex |-> idx + 1]

RECURSIVE saveStateTimes_ar(_, _, _, _)
saveStateTimes_ar(h, idx, state, k) ==
  IF k = 0 THEN [history |-> h, historyIndex |-> idx]
  ELSE LET r == saveState_ar(h, idx, state)
       IN saveStateTimes_ar(r.history, r.historyIndex, state, k - 1)

(* saveState() k times on the scene (ns, cs, as); raises when a connection
   has an undefined end, before the history is touched *)
Commit_ar(ns, cs, as, no, co, ao, k) ==
  IF k > 0 /\ Dangling(cs, co)
  THEN UNCHANGED histVars
  ELSE LET r == saveStateTimes_ar(history, historyIndex,
                                  SceneData(ns, cs, as, no, co, ao), k)
       IN /\ history' = r.history
          /\ historyIndex' = r.historyIndex

HeldConns == {selectedConnection, reconnectingConnection} \ {Null}

HeldAreas == {selectedArea, draggingArea, resizingArea, lastClickArea} \ {Null}

HeldNodes ==
  ({connObj[c].fromNode : c \in HeldConns}
     \cup {connObj[c].toNode : c \in HeldConns}
     \cup {selectedNode, connectionStart, editingNode, draggingNode,
           resizingNode, lastClickNode, connectingFrom.node, connectingTo.node})
    \ {Null}

(* the node, connection and area objects that restoreState and
   importFromJSON build from a parsed record *)
reconstruct_ar(data) ==
  LET nrefs == FreshRefs(HeldNodes, Len(data.nodes))
      no    == [r \in Range(nrefs) |->
                  LET d == data.nodes[CHOOSE j \in 1..Len(nrefs) : nrefs[j] = r]
                  IN [NewNode_ar(d.id, d.type, d.x, d.y, d.text) EXCEPT
                        !.width = d.width,
                        !.height = d.height,
                        !.link = OrStr(d.link, ""),
                        !.fillColor = OrStr(d.fillColor, "#FFFFFF"),
                        !.fontColor = OrStr(d.fontColor, "#000000"),
                        !.fontSize = OrNum(d.fontSize, 14),
                        !.outlineColor = OrStr(d.outlineColor, "#000000"),
                        !.outlineWidth = OrNum(d.outlineWidth, 2)]]
      (* this.nodes.find(n => n.id === id): the first match, or undefined *)
      find(id) ==
        IF \E i \in 1..Len(data.nodes) : data.nodes[i].id = id
        THEN nrefs[CHOOSE i \in 1..Len(data.nodes) :
                     /\ data.nodes[i].id = id
                     /\ \A j \in 1..(i - 1) : data.nodes[j].id # id]
        ELSE Null
      crefs == FreshRefs(HeldConns, Len(data.connections))
      co    == [r \in Range(crefs) |->
                  LET d == data.connections[CHOOSE j \in 1..Len(crefs) : crefs[j] = r]
                  IN NewConnection(d.id, find(d.fromNodeId), d.fromPort,
                                   find(d.toNodeId), d.toPort)]
      adata == IF "areas" \in DOMAIN data THEN data.areas ELSE <<>>
      arefs == FreshRefs(HeldAreas, Len(adata))
      ao    == [r \in Range(arefs) |->
                  LET d == adata[CHOOSE j \in 1..Len(arefs) : arefs[j] = r]
                  IN [NewArea(d.id, d.x1, d.y1, d.x2, d.y2, d.title) EXCEPT
                        !.fillColor = OrStr(d.fillColor, "rgba(33, 150, 243, 0.1)"),
                        !.outlineColor = OrStr(d.outlineColor, "#2196F3"),
                        !.titleBgColor = OrStr(d.titleBgColor, "#2196F3")]]
  IN [nodes |-> nrefs, nodeObj |-> no, connections |-> crefs, connObj |-> co,
      areas |-> arefs, areaObj |-> ao]

keepPz == UNCHANGED pzVars

(* restoreState; render() raises on a connection with an undefined end *)
restoreState_ar(stateStr) ==
  LET r == reconstruct_ar(JSONparse(stateStr))
  IN /\ nodes' = r.nodes
     /\ connections' = r.connections
     /\ areas' = r.areas
     /\ selectedNode' = Null
     /\ selectedConnection' = Null
     /\ selectedArea' = Null
     /\ UNCHANGED <<idVars, isPanning, resizeHandle, arGesture, arMark, arClick,
                    classVars>>
     /\ keepPz
     /\ Store(r.nodeObj @@ nodeObj, r.connObj @@ connObj, r.areaObj @@ areaObj)
     /\ threw' = Dangling(r.connections, r.connObj)

keepAll_ar ==
  UNCHANGED <<objVars, sceneVars, idVars, selVars, histVars, isPanning,
              resizeHandle, pzVars, arVars>>

undo_ar ==
  IF historyIndex > 0
  THEN /\ historyIndex' = historyIndex - 1
       /\ history' = history
       /\ restoreState_ar(history[historyIndex])
  ELSE keepAll_ar /\ threw' = FALSE

(* a redo that restores the snapshot at the last index again *)
redo_ar_atLast ==
  IF historyIndex < Len(history) - 1
  THEN /\ historyIndex' = historyIndex + 1
       /\ history' = history
       /\ restoreState_ar(history[historyIndex + 2])
  ELSE IF historyIndex >= 0
  THEN /\ UNCHANGED histVars
       /\ restoreState_ar(history[historyIndex + 1])
  ELSE keepAll_ar /\ threw' = FALSE

redo_ar ==
  IF historyIndex < Len(history) - 1
  THEN /\ historyIndex' = historyIndex + 1
       /\ history' = history
       /\ restoreState_ar(history[historyIndex + 2])
  ELSE keepAll_ar /\ threw' = FALSE

clear_ar ==
  /\ nodes' = <<>> /\ connections' = <<>> /\ areas' = <<>>
  /\ selectedNode' = Null /\ selectedConnection' = Null /\ selectedArea' = Null
  /\ history' = <<>> /\ historyIndex' = -1
  /\ nodeIdCounter' = 1 /\ connectionIdCounter' = 1 /\ areaIdCounter' = 1
  /\ UNCHANGED <<isPanning, resizeHandle, arVars>>
  /\ keepPz
  /\ Store(nodeObj, connObj, areaObj)
  /\ threw' = FALSE

addNode_ar(type, text, x, y) ==
  LET r  == FreshRefs(DOMAIN nodeObj, 1)[1]
      no == (r :> NewNode_ar(MakeId("_", nodeIdCounter), type, x, y, text)) @@ nodeObj
      ns == Append(nodes, r)
  IN /\ Len(nodes) < MaxNodes
     /\ nodes' = ns
     /\ nodeIdCounter' = nodeIdCounter + 1
     /\ Commit_ar(ns, connections, areas, no, connObj, areaObj, 1)
     /\ UNCHANGED <<connections, areas, connectionIdCounter, areaIdCounter,
                    selVars, isPanning, resizeHandle, arVars>>
     /\ keepPz
     /\ Store(no, connObj, areaObj)
     /\ threw' = Dangling(connections, connObj)

startAreaMarking ==
  /\ markingArea' = TRUE
  /\ areaStart' = NoXY
  /\ areaEnd' = NoXY
  /\ selectedNode' = Null /\ selectedConnection' = Null /\ selectedArea' = Null
  /\ UNCHANGED <<sceneVars, idVars, histVars, isPanning, resizeHandle,
                 arGesture, arClick, classVars>>
  /\ keepPz
  /\ Store(nodeObj, connObj, areaObj)
  /\ threw' = Dangling(connections, connObj)

exportToJSON ==
  JSONstringify(SceneData(nodes, connections, areas, nodeObj, connObj, areaObj))

(* Math.max(...ids.map(id => parseInt(id.split('_')[1]) || 0), 0) + 1 *)
NextCounter(objs) ==
  MaxOfSeq([i \in 1..Len(objs) |-> ParseSuffix(objs[i].id, "_")], 0) + 1

importFromJSON_ar(jsonStr) ==
  LET r  == reconstruct_ar(JSONparse(jsonStr))
      no == r.nodeObj @@ nodeObj
      co == r.connObj @@ connObj
      ao == r.areaObj @@ areaObj
  IN /\ nodes' = r.nodes
     /\ connections' = r.connections
     /\ areas' = r.areas
     /\ nodeIdCounter' = NextCounter([i \in 1..Len(r.nodes) |-> no[r.nodes[i]]])
     /\ connectionIdCounter' =
          NextCounter([i \in 1..Len(r.connections) |-> co[r.connections[i]]])
     /\ areaIdCounter' = NextCounter([i \in 1..Len(r.areas) |-> ao[r.areas[i]]])
     /\ Commit_ar(r.nodes, r.connections, r.areas, no, co, ao, 1)
     /\ UNCHANGED <<selVars, isPanning, resizeHandle, arVars>>
     /\ keepPz
     /\ Store(no, co, ao)
     /\ threw' = Dangling(r.connections, co)

----------------------------------------------------------------------------
(* Area-enabled canvas: pointer handlers *)

Reverse(s) == [i \in 1..Len(s) |-> s[Len(s) + 1 - i]]

(* the controller fields the pointer handlers assign *)
Controller ==
  [selectedNode |-> selectedNode, selectedConnection |-> selectedConnection,
   selectedArea |-> selectedArea, isPanning |-> isPanning,
   resizeHandle |-> resizeHandle,
   draggingNode |-> draggingNode, draggingArea |-> draggingArea,
   resizingNode |-> resizingNode, resizingArea |-> resizingArea,
   resizeStart |-> resizeStart, dragStart |-> dragStart,
   connectingFrom |-> connectingFrom, connectingTo |-> connectingTo,
   markingArea |-> markingArea, areaStart |-> areaStart, areaEnd |-> areaEnd,
   lastClickNode |-> lastClickNode, lastClickArea |-> lastClickArea]

SetController(c) ==
  /\ selectedNode' = c.selectedNode
  /\ selectedConnection' = c.selectedConnection
  /\ selectedArea' = c.selectedArea
  /\ isPanning' = c.isPanning
  /\ resizeHandle' = c.resizeHandle
  /\ draggingNode' = c.draggingNode
  /\ draggingArea' = c.draggingArea
  /\ resizingNode' = c.resizingNode
  /\ resizingArea' = c.resizingArea
  /\ resizeStart' = c.resizeStart
  /\ dragStart' = c.dragStart
  /\ connectingFrom' = c.connectingFrom
  /\ connectingTo' = c.connectingTo
  /\ markingArea' = c.markingArea
  /\ areaStart' = c.areaStart
  /\ areaEnd' = c.areaEnd
  /\ lastClickNode' = c.lastClickNode
  /\ lastClickArea' = c.lastClickArea

(* a connection the hit-test loop stops at: one near the pointer, or one with
   an undefined end, on which isNearPoint raises *)
StopsHitTest(c, x, y) ==
  IF connObj[c].fromNode = Null \/ connObj[c].toNode = Null THEN TRUE
  ELSE isNearPoint(connObj[c], x, y)

(* the controller after handleMouseDown; quick: the press comes less than
   doubleClickDelay after the previous one; raised: a TypeError ended it *)
mouseDown_ar(button, ctrlKey, x, y, quick) ==
  LET c   == Controller
      rev == Reverse(areas)
      onHandle(a) ==
        a = selectedArea /\ isOnAreaResizeHandle(areaObj[a], x, y).position # "none"
      onTitle(a) == isOnTitleBar(areaObj[a], x, y)
      inArea(a)  == areaContainsPoint(areaObj[a], x, y)
      onPoint(n) == isOnConnectionPoint(nodeObj[n], x, y).position # "none"
      onResize(n) ==
        n = selectedNode /\ isOnResizeHandle(nodeObj[n], x, y).position # "none"
      hits(n) == onPoint(n) \/ onResize(n) \/ containsPoint(nodeObj[n], x, y)
      stops(k) == StopsHitTest(k, x, y)
      rszArea   == FirstSuch(rev, onHandle)
      titleArea == FirstSuch(rev, onTitle)
      node      == FirstSuch(nodes, hits)
      conn      == FirstSuch(connections, stops)
      bodyArea  == FirstSuch(rev, inArea)
      done(r)   == [ctl |-> r, raised |-> FALSE]
      drawn(r)  == [ctl |-> r, raised |-> Dangling(connections, connObj)]
  IN IF button = 1 \/ button = 2 \/ (button = 0 /\ (ctrlKey \/ spacePressed))
     THEN done([c EXCEPT !.isPanning = TRUE])
     ELSE IF markingArea
     THEN done([c EXCEPT !.areaStart = [set |-> TRUE, x |-> x, y |-> y]])
     ELSE IF rszArea # Null
     THEN done([c EXCEPT
                  !.resizingArea = rszArea,
                  !.resizeHandle = isOnAreaResizeHandle(areaObj[rszArea], x, y).position,
                  !.resizeStart = [x |-> x, y |-> y,
                                   x1 |-> areaObj[rszArea].x1, y1 |-> areaObj[rszArea].y1,
                                   x2 |-> areaObj[rszArea].x2, y2 |-> areaObj[rszArea].y2]])
     ELSE IF titleArea # Null
     THEN IF lastClickArea = titleArea /\ quick
          THEN done([c EXCEPT !.lastClickArea = Null])
          ELSE drawn([c EXCEPT
                  !.lastClickArea = titleArea,
                  !.selectedArea = titleArea,
                  !.selectedNode = Null,
                  !.selectedConnection = Null,
                  !.draggingArea = titleArea,
                  !.dragStart = [x |-> x - areaObj[titleArea].x1,
                                 y |-> y - areaObj[titleArea].y1,
                                 width |-> areaObj[titleArea].x2 - areaObj[titleArea].x1,
                                 height |-> areaObj[titleArea].y2 - areaObj[titleArea].y1]])
     ELSE IF node # Null
     THEN IF onPoint(node)
          THEN drawn([c EXCEPT
                  !.connectingFrom =
                     [node |-> node, point |-> isOnConnectionPoint(nodeObj[node], x, y)],
                  !.selectedNode = Null,
                  !.selectedConnection = Null,
                  !.selectedArea = Null])
          ELSE IF onResize(node)
          THEN done([c EXCEPT
                  !.resizingNode = node,
                  !.resizeHandle = isOnResizeHandle(nodeObj[node], x, y).position,
                  !.resizeStart = [x |-> x, y |-> y, width |-> nodeObj[node].width,
                                   height |-> nodeObj[node].height]])
          ELSE IF lastClickNode = node /\ quick
          THEN done([c EXCEPT !.lastClickNode = Null])
          ELSE drawn([c EXCEPT
                  !.lastClickNode = node,
                  !.selectedNode = node,
                  !.selectedConnection = Null,
                  !.selectedArea = Null,
                  !.draggingNode = node,
                  !.dragStart = [x |-> x - nodeObj[node].x, y |-> y - nodeObj[node].y]])
     ELSE IF conn # Null
     THEN IF connObj[conn].fromNode = Null \/ connObj[conn].toNode = Null
          THEN [ctl |-> c, raised |-> TRUE]
          ELSE drawn([c EXCEPT !.selectedConnection = conn,
                               !.selectedNode = Null,
                               !.selectedArea = Null])
     ELSE IF bodyArea # Null
     THEN drawn([c EXCEPT !.selectedArea = bodyArea,
                          !.selectedNode = Null,
                          !.selectedConnection = Null])
     ELSE drawn([c EXCEPT !.selectedNode = Null,
                          !.selectedConnection = Null,
                          !.selectedArea = Null,
                          !.isPanning = TRUE])

handleMouseDown_ar(button, ctrlKey, x, y, quick) ==
  LET r == mouseDown_ar(button, ctrlKey, x, y, quick)
  IN /\ SetController(r.ctl)
     /\ UNCHANGED <<sceneVars, idVars, histVars, spacePressed, classVars>>
     /\ keepPz
     /\ Store(nodeObj, connObj, areaObj)
     /\ threw' = r.raised

doubleClickDelay == 300

(* handleMouseDown with the clock: the pointer-down at time currentTime is
   quick when it comes less than doubleClickDelay after lastClickTime; a
   double-click resets lastClickTime, a single click on a title bar or a
   node body records currentTime *)
handleMouseDownAt_ar(button, ctrlKey, x, y, currentTime) ==
  LET quick  == currentTime - lastClickTime < doubleClickDelay
      r      == mouseDown_ar(button, ctrlKey, x, y, quick)
      double == \/ lastClickArea # Null /\ r.ctl.lastClickArea = Null
                \/ lastClickNode # Null /\ r.ctl.lastClickNode = Null
      single == \/ r.ctl.draggingArea # draggingArea
                \/ r.ctl.draggingNode # draggingNode
  IN /\ SetController(r.ctl)
     /\ lastClickTime' = IF double THEN 0
                         ELSE IF single THEN currentTime
                         ELSE lastClickTime
     /\ UNCHANGED <<sceneVars, idVars, histVars, spacePressed, variant,
                    clipboard, routed, pathPoints, now, viewVars>>
     /\ keepPz
     /\ Store(nodeObj, connObj, areaObj)
     /\ threw' = r.raised

(* resizeArea carrying the whole rectangle along with the pointer *)
resizeArea_carried(a, x, y) ==
  LET dx == x - resizeStart.x
      dy == y - resizeStart.y
  IN [a EXCEPT !.x1 = resizeStart.x1 + dx, !.x2 = resizeStart.x2 + dx,
               !.y1 = resizeStart.y1 + dy, !.y2 = resizeStart.y2 + dy]

(* the area being resized after a move of the pointer to (x, y) *)
resizeArea(a, x, y) ==
  LET dx == x - resizeStart.x
      dy == y - resizeStart.y
      left   == Min2(resizeStart.x1 + dx, resizeStart.x2 - minAreaSize)
      right  == Max2(resizeStart.x2 + dx, resizeStart.x1 + minAreaSize)
      top    == Min2(resizeStart.y1 + dy, resizeStart.y2 - minAreaSize)
      bottom == Max2(resizeStart.y2 + dy, resizeStart.y1 + minAreaSize)
  IN CASE resizeHandle = "top-left"     -> [a EXCEPT !.x1 = left, !.y1 = top]
       [] resizeHandle = "top-right"    -> [a EXCEPT !.x2 = right, !.y1 = top]
       [] resizeHandle = "bottom-right" -> [a EXCEPT !.x2 = right, !.y2 = bottom]
       [] resizeHandle = "bottom-left"  -> [a EXCEPT !.x1 = left, !.y2 = bottom]
       [] resizeHandle = "top"          -> [a EXCEPT !.y1 = top]
       [] resizeHandle = "right"        -> [a EXCEPT !.x2 = right]
       [] resizeHandle = "bottom"       -> [a EXCEPT !.y2 = bottom]
       [] resizeHandle = "left"         -> [a EXCEPT !.x1 = left]
       [] OTHER -> a

(* the node being resized after a move of the pointer to (x, y) *)
(* resizeNode_ar with the dragged corner's opposite corner held in place *)
resizeNode_ar_movesCentre(n, x, y) ==
  LET dx == x - resizeStart.x
      dy == y - resizeStart.y
      w  == Max2(minNodeWidth, resizeStart.width + dx * 2)
      h  == Max2(minNodeHeight, resizeStart.height + dy * 2)
  IN [n EXCEPT !.width = w, !.height = h,
               !.x = n.x + (w - n.width) \div 2,
               !.y = n.y + (h - n.height) \div 2]

resizeNode_ar(n, x, y) ==
  LET dx == x - resizeStart.x
      dy == y - resizeStart.y
      wMinus == Max2(minNodeWidth, resizeStart.width - dx * 2)
      wPlus  == Max2(minNodeWidth, resizeStart.width + dx * 2)
      hMinus == Max2(minNodeHeight, resizeStart.height - dy * 2)
      hPlus  == Max2(minNodeHeight, resizeStart.height + dy * 2)
  IN CASE resizeHandle = "top-left"     -> [n EXCEPT !.width = wMinus, !.height = hMinus]
       [] resizeHandle = "top-right"    -> [n EXCEPT !.width = wPlus, !.height = hMinus]
       [] resizeHandle = "bottom-right" -> [n EXCEPT !.width = wPlus, !.height = hPlus]
       [] resizeHandle = "bottom-left"  -> [n EXCEPT !.width = wMinus, !.height = hPlus]
       [] OTHER -> n

handleMouseMove_ar(x, y) ==
  LET pos == [set |-> TRUE, node |-> Null, position |-> "none"]
      target(n) ==
        n # connectingFrom.node
          /\ isOnConnectionPoint(nodeObj[n], x, y).position # "none"
      tnode == FirstSuch(nodes, target)
      broken == Dangling(connections, connObj)
      overArea == \E a \in Range(areas) :
                    \/ (a = selectedArea
                          /\ isOnAreaResizeHandle(areaObj[a], x, y).position # "none")
                    \/ isOnTitleBar(areaObj[a], x, y)
      overNode == \E n \in Range(nodes) :
                    \/ isOnConnectionPoint(nodeObj[n], x, y).position # "none"
                    \/ (n = selectedNode
                          /\ isOnResizeHandle(nodeObj[n], x, y).position # "none")
                    \/ containsPoint(nodeObj[n], x, y)
      stops(k) == StopsHitTest(k, x, y)
      conn == FirstSuch(connections, stops)
  IN /\ UNCHANGED <<sceneVars, idVars, selVars, histVars, isPanning, resizeHandle,
                    draggingNode, draggingArea, resizingNode, resizingArea,
                    resizeStart, dragStart, connectingFrom, markingArea,
                    areaStart, arClick, classVars>>
     /\ keepPz
     /\ IF markingArea /\ areaStart.set
        THEN /\ areaEnd' = [set |-> TRUE, x |-> x, y |-> y]
             /\ connectingTo' = connectingTo
             /\ Store(nodeObj, connObj, areaObj)
             /\ threw' = broken
        ELSE IF isPanning
        THEN /\ UNCHANGED <<areaEnd, connectingTo>>
             /\ Store(nodeObj, connObj, areaObj)
             /\ threw' = broken
        ELSE IF connectingFrom.node # Null
        THEN /\ connectingTo' =
                  IF ~broken /\ tnode # Null
                  THEN [set |-> TRUE, node |-> tnode,
                        position |-> isOnConnectionPoint(nodeObj[tnode], x, y).position]
                  ELSE pos
             /\ areaEnd' = areaEnd
             /\ Store(nodeObj, connObj, areaObj)
             /\ threw' = broken
        ELSE IF resizingArea # Null
        THEN /\ UNCHANGED <<areaEnd, connectingTo>>
             /\ Store(nodeObj, connObj,
                      [areaObj EXCEPT ![resizingArea] =
                         resizeArea(areaObj[resizingArea], x, y)])
             /\ threw' = broken
        ELSE IF draggingArea # Null
        THEN /\ UNCHANGED <<areaEnd, connectingTo>>
             /\ Store(nodeObj, connObj,
                      [areaObj EXCEPT ![draggingArea] =
                         [areaObj[draggingArea] EXCEPT
                            !.x1 = x - dragStart.x,
                            !.y1 = y - dragStart.y,
                            !.x2 = x - dragStart.x + dragStart.width,
                            !.y2 = y - dragStart.y + dragStart.height]])
             /\ threw' = broken
        ELSE IF resizingNode # Null
        THEN /\ UNCHANGED <<areaEnd, connectingTo>>
             /\ Store([nodeObj EXCEPT ![resizingNode] =
                         resizeNode_ar(nodeObj[resizingNode], x, y)],
                      connObj, areaObj)
             /\ threw' = broken
        ELSE IF draggingNode # Null
        THEN /\ UNCHANGED <<areaEnd, connectingTo>>
             /\ Store([nodeObj EXCEPT ![draggingNode].x = x - dragStart.x,
                                      ![draggingNode].y = y - dragStart.y],
                      connObj, areaObj)
             /\ threw' = broken
        ELSE /\ UNCHANGED <<areaEnd, connectingTo>>
             /\ Store(nodeObj, connObj, areaObj)
             /\ threw' = (/\ ~spacePressed /\ ~markingArea
                          /\ ~overArea /\ ~overNode
                          /\ conn # Null
                          /\ (connObj[conn].fromNode = Null
                                \/ connObj[conn].toNode = Null))

(* pointer-up that completes area marking: the area, the dialog, saveState *)
finishMarking ==
  LET r  == FreshRefs(DOMAIN areaObj, 1)[1]
      ao == (r :> NewArea(MakeId("_", areaIdCounter), areaStart.x, areaStart.y,
                          areaEnd.x, areaEnd.y, "Section")) @@ areaObj
      as == Append(areas, r)
  IN /\ Len(areas) < MaxAreas
     /\ areas' = as
     /\ areaIdCounter' = areaIdCounter + 1
     /\ selectedArea' = r
     /\ markingArea' = FALSE
     /\ areaStart' = NoXY
     /\ areaEnd' = NoXY
     /\ Commit_ar(nodes, connections, as, nodeObj, connObj, ao, 1)
     /\ UNCHANGED <<nodes, connections, nodeIdCounter, connectionIdCounter,
                    selectedNode, selectedConnection, isPanning, resizeHandle,
                    arGesture, arClick, classVars>>
     /\ Store(nodeObj, connObj, ao)
     /\ threw' = Dangling(connections, connObj)

(* pointer-up of a connect gesture that has seen a pointer move *)
finishConnecting_ar ==
  LET fromPort == connectingFrom.point.position
      toPort   == connectingTo.position
      existing == \E c \in Range(connections) :
                    /\ connObj[c].fromNode = connectingFrom.node
                    /\ connObj[c].toNode = connectingTo.node
                    /\ connObj[c].fromPort = fromPort
                    /\ connObj[c].toPort = toPort
      create == connectingTo.node # Null /\ ~existing
      r  == FreshRefs(DOMAIN connObj, 1)[1]
      co == IF create
            THEN (r :> NewConnection(MakeId("_", connectionIdCounter),
                                     connectingFrom.node, fromPort,
                                     connectingTo.node, toPort)) @@ connObj
            ELSE connObj
      cs == IF create THEN Append(connections, r) ELSE connections
      broken == Dangling(cs, co)
  IN /\ create => Len(connections) < MaxConns
     /\ connections' = cs
     /\ connectionIdCounter' = connectionIdCounter + (IF create THEN 1 ELSE 0)
     /\ Commit_ar(nodes, cs, areas, nodeObj, co, areaObj, IF create THEN 1 ELSE 0)
     /\ IF create /\ broken
        THEN UNCHANGED <<connectingFrom, connectingTo>>
        ELSE connectingFrom' = EmptyPoint /\ connectingTo' = NoTarget
     /\ UNCHANGED <<nodes, areas, nodeIdCounter, areaIdCounter, selVars,
                    isPanning, resizeHandle, draggingNode, draggingArea,
                    resizingNode, resizingArea, resizeStart, dragStart,
                    arMark, arClick, classVars>>
     /\ Store(nodeObj, co, areaObj)
     /\ threw' = broken

(* pointer-up of a drag or a resize: saveState for each gesture in progress *)
finishGestures ==
  LET k == (IF draggingArea # Null THEN 1 ELSE 0)
             + (IF resizingArea # Null THEN 1 ELSE 0)
             + (IF draggingNode # Null THEN 1 ELSE 0)
             + (IF resizingNode # Null THEN 1 ELSE 0)
      broken == k > 0 /\ Dangling(connections, connObj)
  IN /\ Commit_ar(nodes, connections, areas, nodeObj, connObj, areaObj, k)
     /\ IF broken
        THEN UNCHANGED <<draggingArea, resizingArea, draggingNode, resizingNode,
                         resizeHandle>>
        ELSE /\ draggingArea' = Null /\ resizingArea' = Null
             /\ draggingNode' = Null /\ resizingNode' = Null
             /\ resizeHandle' =
                  IF resizingArea # Null \/ resizingNode # Null THEN "none"
                  ELSE resizeHandle
     /\ UNCHANGED <<sceneVars, idVars, selVars, isPanning, resizeStart, dragStart,
                    connectingFrom, connectingTo, arMark, arClick, classVars>>
     /\ Store(nodeObj, connObj, areaObj)
     /\ threw' = broken

handleMouseUp_ar ==
  /\ keepPz
  /\ IF markingArea /\ areaStart.set /\ areaEnd.set THEN finishMarking
     ELSE IF isPanning
     THEN /\ isPanning' = FALSE
          /\ UNCHANGED <<sceneVars, idVars, selVars, histVars, resizeHandle,
                         arGesture, arMark, arClick, classVars>>
          /\ Store(nodeObj, connObj, areaObj)
          /\ threw' = FALSE
     ELSE IF connectingFrom.node # Null /\ connectingTo.set THEN finishConnecting_ar
     ELSE finishGestures

----------------------------------------------------------------------------
(* Area-enabled canvas: keyboard handlers *)

deleteSelected_ar ==
  LET cs == IF selectedNode # Null
            THEN SelectSeq(connections,
                   LAMBDA c : connObj[c].fromNode # selectedNode
                                /\ connObj[c].toNode # selectedNode)
            ELSE IF selectedConnection # Null
            THEN SelectSeq(connections, LAMBDA c : c # selectedConnection)
            ELSE connections
      ns == IF selectedNode # Null
            THEN SelectSeq(nodes, LAMBDA n : n # selectedNode) ELSE nodes
      as == IF selectedNode = Null /\ selectedConnection = Null
            THEN SelectSeq(areas, LAMBDA a : a # selectedArea) ELSE areas
      any == selectedNode # Null \/ selectedConnection # Null \/ selectedArea # Null
  IN /\ nodes' = ns
     /\ connections' = cs
     /\ areas' = as
     /\ selectedNode' = Null
     /\ selectedConnection' = IF selectedNode # Null THEN selectedConnection ELSE Null
     /\ selectedArea' =
          IF selectedNode # Null \/ selectedConnection # Null THEN selectedArea
          ELSE Null
     /\ Commit_ar(ns, cs, as, nodeObj, connObj, areaObj, IF any THEN 1 ELSE 0)
     /\ UNCHANGED <<idVars, isPanning, resizeHandle, arVars>>
     /\ Store(nodeObj, connObj, areaObj)
     /\ threw' = (any /\ Dangling(cs, connObj))

handleKeyDown_ar(key) ==
  /\ keepPz
  /\ IF key = "Space" /\ ~spacePressed
     THEN /\ spacePressed' = TRUE
          /\ UNCHANGED <<sceneVars, idVars, selVars, histVars, isPanning,
                         resizeHandle, arGesture, arMark, lastClickNode,
                         lastClickArea, classVars>>
          /\ Store(nodeObj, connObj, areaObj)
          /\ threw' = FALSE
     ELSE CASE key = "Delete" -> deleteSelected_ar
            [] key = "undo" -> undo_ar
            [] key = "redo" -> redo_ar
            [] key = "Escape" ->
                 /\ markingArea' = FALSE
                 /\ areaStart' = IF markingArea THEN NoXY ELSE areaStart
                 /\ areaEnd' = IF markingArea THEN NoXY ELSE areaEnd
                 /\ UNCHANGED <<sceneVars, idVars, selVars, histVars, isPanning,
                                resizeHandle, arGesture, arClick, classVars>>
                 /\ Store(nodeObj, connObj, areaObj)
                 /\ threw' = (markingArea /\ Dangling(connections, connObj))
            [] OTHER -> keepAll_ar /\ threw' = FALSE

handleKeyUp_ar(key) ==
  /\ keepPz
  /\ spacePressed' = IF key = "Space" THEN FALSE ELSE spacePressed
  /\ UNCHANGED <<sceneVars, idVars, selVars, histVars, isPanning, resizeHandle,
                 arGesture, arMark, lastClickNode, lastClickArea, classVars>>
  /\ Store(nodeObj, connObj, areaObj)
  /\ threw' = FALSE

----------------------------------------------------------------------------
(* Area-enabled canvas: construction *)

Init_ar ==
  /\ nodeObj = <<>> /\ connObj = <<>>
  /\ nodes = <<>> /\ connections = <<>>
  /\ nodeIdCounter = 1 /\ connectionIdCounter = 1
  /\ selectedNode = Null /\ selectedConnection = Null
  /\ isPanning = FALSE /\ resizeHandle = "none"
  /\ InitPanZoomFields
  /\ InitAreaCanvasFields
  /\ history = saveState_ar(<<>>, -1, SceneData(<<>>, <<>>, <<>>, <<>>, <<>>, <<>>)).history
  /\ historyIndex =
       saveState_ar(<<>>, -1, SceneData(<<>>, <<>>, <<>>, <<>>, <<>>, <<>>)).historyIndex
  /\ variant = "ar"
  /\ clipboard = NoClip
  /\ routed = NoRoute /\ pathPoints = <<>>
  /\ InitClock
  /\ InitView
  /\ threw = FALSE

----------------------------------------------------------------------------
(* Area-enabled canvas: settings, dragging, connecting, marking, deleting,
   undo, redo, export and import *)

(* node.updateSettings(settings) on a node of the scene *)
updateNodeSettings(n, settings) ==
  /\ UNCHANGED <<sceneVars, idVars, selVars, histVars, isPanning, resizeHandle,
                 arVars>>
  /\ keepPz
  /\ Store([nodeObj EXCEPT ![n] = updateSettings(nodeObj[n], settings)],
           connObj, areaObj)
  /\ threw' = FALSE

(* area.updateSettings(settings) on an area of the scene *)
updateAreaSettings(a, settings) ==
  /\ UNCHANGED <<sceneVars, idVars, selVars, histVars, isPanning, resizeHandle,
                 arVars>>
  /\ keepPz
  /\ Store(nodeObj, connObj,
           [areaObj EXCEPT ![a] = Area_updateSettings(areaObj[a], settings)])
  /\ threw' = FALSE

SettingsInputs == {[outlineWidth |-> 0]}

NodeData_ar(n, x, y) ==
  [NewNode_ar(MakeId("_", n), "process", x, y, "A") EXCEPT !.id = MakeId("_", n)]

ConnData_ar(n, f, fp, t, tp) ==
  [id |-> MakeId("_", n), fromNodeId |-> MakeId("_", f), fromPort |-> fp,
   toNodeId |-> MakeId("_", t), toPort |-> tp]

(* a record whose only connection names a node that is not in it *)
DanglingDoc ==
  [nodes |-> <<NodeData_ar(1, 100, 100)>>,
   connections |-> <<ConnData_ar(1, 1, "right", 7, "right")>>,
   areas |-> <<>>]

Docs_ar == {DanglingDoc}

MarkFrom   == [x |-> 20, y |-> 40]
MarkTo     == [x |-> 180, y |-> 160]
AreaInside == [x |-> 30, y |-> 150]

PointerPoints_ar ==
  IF markingArea THEN (IF areaStart.set THEN {MarkTo} ELSE {MarkFrom})
  ELSE {EmptySpot}
         \cup UNION {PointsOf(nodeObj[n]) : n \in Range(nodes)}
         \cup (IF areas # <<>> THEN {AreaInside} ELSE {})

AtNewest == historyIndex = Len(history) - 1

BoundedArea == historyIndex + 1 < MaxHistArea /\ AtNewest

Idle_ar ==
  /\ ~isPanning /\ ~areaStart.set
  /\ draggingNode = Null /\ draggingArea = Null
  /\ resizingNode = Null /\ resizingArea = Null
  /\ connectingFrom.node = Null

DragLandsOnSlot_ar(x, y) ==
  (draggingNode # Null /\ ~isPanning /\ connectingFrom.node = Null)
    => /\ x - dragStart.x = nodeObj[draggingNode].x
       /\ y - dragStart.y = nodeObj[draggingNode].y

AddNode_a ==
  /\ ~threw /\ BoundedArea /\ nodeIdCounter <= MaxIds
  /\ \E i \in 1..Len(Slots) : ~Occupied(Slots[i])
  /\ addNode_ar("process", "A", FreeSlot.x, FreeSlot.y)

UpdateSettings_a ==
  \E st \in SettingsInputs :
    ~threw /\ AtNewest /\ nodes # <<>> /\ updateNodeSettings(nodes[1], st)

StartAreaMarking_a ==
  /\ ~threw /\ AtNewest /\ Idle_ar /\ ~markingArea
  /\ Len(areas) < MaxAreas /\ areaIdCounter <= MaxIds
  /\ startAreaMarking

MouseDown_a ==
  \E p \in PointerPoints_ar, quick \in BOOLEAN :
    ~threw /\ AtNewest /\ Idle_ar /\ handleMouseDown_ar(0, FALSE, p.x, p.y, quick)

MouseMove_a ==
  \E p \in PointerPoints_ar :
    /\ ~threw /\ AtNewest /\ ~Idle_ar
    /\ DragLandsOnSlot_ar(p.x, p.y)
    /\ handleMouseMove_ar(p.x, p.y)

MouseUp_a ==
  /\ ~threw /\ ~Idle_ar /\ BoundedArea
  /\ connectingTo.node # Null => connectionIdCounter <= MaxIds
  /\ handleMouseUp_ar

KeyDelete_a == ~threw /\ BoundedArea /\ handleKeyDown_ar("Delete")
KeyUndo_a   == ~threw /\ AtNewest /\ Idle_ar /\ handleKeyDown_ar("undo")
KeyRedo_a   == ~threw /\ handleKeyDown_ar("redo")

(* importFromJSON(exportToJSON()) *)
ImportExport_a == ~threw /\ BoundedArea /\ importFromJSON_ar(exportToJSON)

ImportDoc_a ==
  \E d \in Docs_ar : ~threw /\ BoundedArea /\ importFromJSON_ar(JSONstringify(d))

NextArea ==
  \/ AddNode_a
  \/ UpdateSettings_a
  \/ StartAreaMarking_a
  \/ MouseDown_a
  \/ MouseMove_a
  \/ MouseUp_a
  \/ KeyDelete_a
  \/ KeyUndo_a
  \/ KeyRedo_a
  \/ ImportExport_a
  \/ ImportDoc_a

SpecArea == Init_ar /\ [][NextArea]_vars

----------------------------------------------------------------------------
(* Area-enabled canvas: properties of undo, redo, export, import, delete *)

(* the scene as saveState and exportToJSON record it: node fields,
   connections by end identifiers and ports, area fields *)
CurrentScene == SceneData(nodes, connections, areas, nodeObj, connObj, areaObj)

ConnectionsReferenceSceneNodes ==
  \A c \in Range(connections) :
    connObj[c].fromNode \in Range(nodes) /\ connObj[c].toNode \in Range(nodes)

(* the scene that restoreState or importFromJSON builds from a text *)
RebuiltScene(str) ==
  LET r == reconstruct_ar(JSONparse(str))
  IN SceneData(r.nodes, r.connections, r.areas, r.nodeObj, r.connObj, r.areaObj)

(* the scene is the one the newest saveState recorded at historyIndex *)
CommittedScene ==
  /\ historyIndex >= 0
  /\ ConnectionsReferenceSceneNodes
  /\ JSONstringify(CurrentScene) = history[historyIndex + 1]

(* C2: on the area-enabled canvas, when the scene is the one committed at
   historyIndex and historyIndex > 0, undo() followed by redo() (which
   rebuilds the scene from history[historyIndex]) gives a scene structurally
   equal to it: every node field, every connection by end identifiers and
   ports, every area field. *)
C2_UndoRedoRestoresScene ==
  (variant = "ar" /\ ~threw /\ historyIndex > 0 /\ CommittedScene)
    => RebuiltScene(history[historyIndex + 1]) = CurrentScene

(* C3: on the area-enabled canvas, importFromJSON(exportToJSON()) on a scene
   whose connections all reference nodes of the scene gives a structurally
   equal scene. *)
C3_ExportImportRoundTrip ==
  (variant = "ar" /\ ~threw /\ ConnectionsReferenceSceneNodes)
    => RebuiltScene(exportToJSON) = CurrentScene

(* C8: deleting a node (deleteNode on the pan-zoom canvas, the Delete key
   with a selected node on the area-enabled canvas) removes exactly the
   connections that reference it, lowers the node count by one and appends
   one snapshot to the history. *)
C8_DeleteNodeRemovesItsConnections ==
  [][ \A n \in DOMAIN nodeObj :
        ( \/ variant = "pz" /\ n \in Range(nodes) /\ deleteNode_pz(n)
          \/ variant = "ar" /\ ~threw /\ selectedNode = n
               /\ handleKeyDown_ar("Delete") )
          => /\ Len(nodes') = Len(nodes) - 1
             /\ connections' =
                  SelectSeq(connections,
                    LAMBDA c : connObj[c].fromNode # n /\ connObj[c].toNode # n)
             /\ Len(history') = historyIndex + 2
             /\ historyIndex' = historyIndex + 1 ]_vars

(* C10: on the area-enabled canvas, importFromJSON and restoreState drop a
   connection whose end identifier names no node of the record: no error is
   raised and every connection of the scene has both ends defined. *)
C10_DanglingConnectionsDropped ==
  variant = "ar"
    => /\ ~threw
       /\ \A c \in Range(connections) :
            connObj[c].fromNode # Null /\ connObj[c].toNode # Null

----------------------------------------------------------------------------
(* Both canvases: a long editing session of one node that is added, dragged,
   undone and redone *)

HistStep == 50

InitHist == Init_pz \/ Init_ar

(* the nodes recorded by the i-th snapshot of the history *)
SnapshotNodes(i) ==
  IF variant = "pz" THEN history[i].nodes ELSE JSONparse(history[i]).nodes

(* every drag to the right moves the node by HistStep, so the position
   recorded by a snapshot tells how many commits led to it: 0 for the empty
   scene, 1 for the scene after addNode, k + 1 after k drags *)
OrdOfNodes(ns) ==
  IF ns = <<>> THEN 0 ELSE (ns[1].x - Slots[1].x) \div HistStep + 1

Ord(i) == OrdOfNodes(SnapshotNodes(i))

CurNode == nodeObj[nodes[1]]

Idle_h == IF variant = "pz" THEN Idle_pz ELSE Idle_ar

(* the node is not where the snapshot at historyIndex recorded it *)
Moved ==
  /\ nodes # <<>>
  /\ historyIndex >= 0
  /\ SnapshotNodes(historyIndex + 1) # <<>>
  /\ \/ CurNode.x # SnapshotNodes(historyIndex + 1)[1].x
     \/ CurNode.y # SnapshotNodes(historyIndex + 1)[1].y

(* a drag goes one step to the right; the first drag after an undo, early in
   the session, goes one step down instead *)
DragTarget ==
  IF /\ historyIndex < Len(history) - 1
     /\ OrdOfNodes(<<CurNode>>) <= BranchOrd
     /\ CurNode.y = Slots[1].y
  THEN [x |-> CurNode.x, y |-> CurNode.y + HistStep]
  ELSE [x |-> CurNode.x + HistStep, y |-> CurNode.y]

AddNode_h ==
  /\ nodes = <<>> /\ Idle_h /\ ~threw
  /\ nodeIdCounter <= MaxIds
  /\ \/ variant = "pz" /\ addNode_pz("process", "A", Slots[1].x, Slots[1].y)
     \/ variant = "ar" /\ addNode_ar("process", "A", Slots[1].x, Slots[1].y)

MouseDown_h ==
  /\ nodes # <<>> /\ Idle_h /\ ~threw
  /\ OrdOfNodes(<<CurNode>>) < MaxCommits
  /\ \/ variant = "pz" /\ handleMouseDown_pz(0, CurNode.x, CurNode.y)
     \/ variant = "ar" /\ handleMouseDown_ar(0, FALSE, CurNode.x, CurNode.y, FALSE)

MouseMove_h ==
  /\ nodes # <<>> /\ ~Idle_h /\ ~Moved
  /\ \/ variant = "pz" /\ handleMouseMove_pz(DragTarget.x, DragTarget.y)
     \/ variant = "ar" /\ handleMouseMove_ar(DragTarget.x, DragTarget.y)

MouseUp_h ==
  /\ ~Idle_h /\ Moved
  /\ \/ variant = "pz" /\ handleMouseUp_pz(CurNode.x, CurNode.y)
     \/ variant = "ar" /\ handleMouseUp_ar

KeyUndo_h ==
  /\ Idle_h
  /\ Len(history) - 1 - historyIndex < MaxUndoDepth
  /\ \/ variant = "pz" /\ handleKeyDown_pz("undo")
     \/ variant = "ar" /\ handleKeyDown_ar("undo")

KeyRedo_h ==
  /\ Idle_h
  /\ \/ variant = "pz" /\ handleKeyDown_pz("redo")
     \/ variant = "ar" /\ handleKeyDown_ar("redo")

(* clear() of the area-enabled canvas empties the history *)
Clear_h == variant = "ar" /\ Idle_h /\ clear_ar

NextHist ==
  \/ AddNode_h
  \/ MouseDown_h
  \/ MouseMove_h
  \/ MouseUp_h
  \/ KeyUndo_h
  \/ KeyRedo_h
  \/ Clear_h

SpecHist == InitHist /\ [][NextHist]_vars

----------------------------------------------------------------------------
(* Both canvases: properties of the bounded history *)

HistoryLimit == IF variant = "pz" THEN maxHistorySize ELSE historyLimit

(* a step that commits a snapshot: saveState is the only code that extends
   or rewrites the history; clear() of the area-enabled canvas empties it *)
CommitStep == history' # history /\ history' # <<>>

UndoCall == IF variant = "pz" THEN undo_pz ELSE undo_ar
RedoCall == IF variant = "pz" THEN redo_pz ELSE redo_ar

(* the snapshots up to and including the one at historyIndex *)
KeptHistory == SubSeq(history, 1, historyIndex + 1)

SceneUnchanged ==
  UNCHANGED <<objVars, sceneVars, idVars, selVars, histVars>>

(* C1: the history never holds more than 50 snapshots; a commit into a full
   history evicts the oldest snapshot and leaves historyIndex on the newest;
   once 51 commits have been made in sequence, the first of them is no
   longer in the history, so undo cannot reach it. *)
C1_HistoryNeverExceedsLimit ==
  /\ [](/\ Len(history) <= 50
        /\ Len(history) <= HistoryLimit
        /\ historyIndex >= -1 /\ historyIndex < Len(history)
        /\ (Len(history) > 0 /\ Ord(Len(history)) >= 51)
             => \A i \in 1..Len(history) : Ord(i) >= 2)
  /\ [][(CommitStep /\ Len(KeptHistory) = HistoryLimit)
          => /\ Len(history') = HistoryLimit
             /\ SubSeq(history', 1, HistoryLimit - 1) = Tail(KeptHistory)
             /\ historyIndex' = Len(history') - 1]_vars

(* a full history whose oldest snapshots have been evicted *)
C1_Witness ==
  /\ Len(history) = 50 /\ historyIndex = 49
  /\ Ord(50) >= 51 /\ Ord(1) >= 2

(* C4: a commit made after one or more undos discards the snapshots beyond
   the index it was made at and leaves historyIndex = history.length - 1;
   redo then changes nothing. *)
C4_CommitAfterUndoDiscardsRedo ==
  /\ [][CommitStep
          => /\ historyIndex' = Len(history') - 1
             /\ SubSeq(history', 1, Len(history') - 1)
                  = IF Len(KeptHistory) = HistoryLimit
                    THEN Tail(KeptHistory) ELSE KeptHistory]_vars
  /\ [][(historyIndex = Len(history) - 1 /\ RedoCall) => SceneUnchanged]_vars

(* the node was dragged down, which happens only in a drag that follows an
   undo, and the drag has been committed as the newest snapshot *)
C4_Witness ==
  /\ nodes # <<>> /\ Idle_h
  /\ CurNode.y = Slots[1].y + HistStep
  /\ historyIndex = Len(history) - 1
  /\ SnapshotNodes(Len(history)) # <<>>
  /\ SnapshotNodes(Len(history))[1].y = CurNode.y
  /\ SnapshotNodes(Len(history))[1].x = CurNode.x

(* C5: undo at index 0 or with an empty history, and redo at the last
   index, change nothing and raise no error. *)
C5_UndoRedoAtEndsAreNoOps ==
  [][((historyIndex <= 0 /\ UndoCall)
        \/ (historyIndex = Len(history) - 1 /\ RedoCall))
       => (UNCHANGED <<vars>> /\ ~threw')]_vars

(* everything has been undone: the oldest of several snapshots is current *)
C5_Witness ==
  /\ historyIndex = 0 /\ Len(history) > 1
  /\ nodes = <<>> /\ SnapshotNodes(2) # <<>>

----------------------------------------------------------------------------
(* Both canvases: identifiers under addNode, connecting, copy, paste, delete,
   undo, redo and import *)

(* records with pairwise distinct identifiers of the canvas's own form: the
   empty scene, and the scene as exportToJSON writes it *)
EmptyDoc == [nodes |-> <<>>, connections |-> <<>>]

Exported_pz == Snapshot_pz(nodes, connections, nodeObj, connObj)

DistinctIds(recs) ==
  \A i, j \in 1..Len(recs) : i # j => recs[i].id # recs[j].id

RoomForCommit == historyIndex + 1 < MaxHistIds

AddNode_i ==
  /\ Idle_h /\ ~threw /\ RoomForCommit
  /\ nodeIdCounter <= MaxIds
  /\ \E i \in 1..Len(Slots) : ~Occupied(Slots[i])
  /\ \/ variant = "pz" /\ addNode_pz("process", "A", FreeSlot.x, FreeSlot.y)
     \/ variant = "ar" /\ addNode_ar("process", "A", FreeSlot.x, FreeSlot.y)

AddConnection_i ==
  /\ variant = "pz" /\ Idle_h /\ RoomForCommit
  /\ Len(nodes) >= 2
  /\ connectionIdCounter <= MaxIds
  /\ AddConnectionCall_pz(nodes[1], "right", nodes[2], "left")

Copy_i == variant = "pz" /\ Idle_h /\ copySelected_pz

Paste_i ==
  /\ variant = "pz" /\ Idle_h /\ historyIndex + 2 < MaxHistIds
  /\ clipboard.type = "node" => Len(nodes) < MaxNodes
  /\ nodeIdCounter <= MaxIds
  /\ paste_pz

Import_i ==
  /\ Idle_h /\ ~threw /\ RoomForCommit
  /\ \/ variant = "pz" /\ \E d \in {EmptyDoc, Exported_pz} :
          DistinctIds(d.nodes) /\ DistinctIds(d.connections)
            /\ importFromJSON_pz(d)
     \/ variant = "ar" /\ \E d \in {JSONstringify(EmptyDoc), exportToJSON} :
          DistinctIds(JSONparse(d).nodes) /\ DistinctIds(JSONparse(d).connections)
            /\ importFromJSON_ar(d)

(* a click on a node, or a drag from its right port to another node *)
MouseDown_i ==
  \E p \in PointerPoints :
    /\ Idle_h /\ ~threw /\ AtNewest
    /\ \/ variant = "pz" /\ handleMouseDown_pz(0, p.x, p.y)
       \/ variant = "ar" /\ handleMouseDown_ar(0, FALSE, p.x, p.y, FALSE)

MouseMove_i ==
  \E p \in PointerPoints :
    /\ ~Idle_h /\ ~threw
    /\ \/ variant = "pz" /\ isConnecting /\ handleMouseMove_pz(p.x, p.y)
       \/ variant = "ar" /\ connectingFrom.node # Null
            /\ handleMouseMove_ar(p.x, p.y)

MouseUp_i ==
  \E p \in PointerPoints :
    /\ ~Idle_h /\ ~threw /\ RoomForCommit
    /\ \/ variant = "pz" /\ handleMouseUp_pz(p.x, p.y)
       \/ variant = "ar" /\ handleMouseUp_ar

KeyDelete_i ==
  /\ Idle_h /\ ~threw /\ RoomForCommit
  /\ \/ variant = "pz" /\ handleKeyDown_pz("Delete")
     \/ variant = "ar" /\ handleKeyDown_ar("Delete")

KeyUndo_i ==
  /\ Idle_h /\ ~threw
  /\ \/ variant = "pz" /\ handleKeyDown_pz("undo")
     \/ variant = "ar" /\ handleKeyDown_ar("undo")

KeyRedo_i ==
  /\ Idle_h /\ ~threw
  /\ \/ variant = "pz" /\ handleKeyDown_pz("redo")
     \/ variant = "ar" /\ handleKeyDown_ar("redo")

NextIds ==
  \/ AddNode_i
  \/ AddConnection_i
  \/ Copy_i
  \/ Paste_i
  \/ Import_i
  \/ MouseDown_i
  \/ MouseMove_i
  \/ MouseUp_i
  \/ KeyDelete_i
  \/ KeyUndo_i
  \/ KeyRedo_i

SpecIds == InitHist /\ [][NextIds]_vars

(* C11: after any sequence of addNode, connection creation, paste, delete,
   undo, redo and importFromJSON of records with pairwise distinct
   identifiers of the canvas's own form, no two nodes of the scene share an
   identifier and no two connections share an identifier. *)
C11_IdsAreUnique ==
  /\ DistinctIds([i \in 1..Len(nodes) |-> nodeObj[nodes[i]]])
  /\ DistinctIds([i \in 1..Len(connections) |-> connObj[connections[i]]])

----------------------------------------------------------------------------
(* Connection.getPathPoints on one connection between two nodes *)

Ports4 == {"top", "right", "bottom", "left"}

(* node A stays at (100,100); node B is drawn around it: level with it,
   inside and on the edge of the alignment tolerance, and far away.  All
   coordinates and sizes are even, so every halving in the code is exact. *)
RouteCoords == {20, 100, 108, 110, 300}
RouteSizes  == {[width |-> 120, height |-> 60], [width |-> 80, height |-> 40]}
RouteWaypoints ==
  {<<>>, <<[x |-> 200, y |-> 50]>>,
   <<[x |-> 200, y |-> 50], [x |-> 220, y |-> 170]>>}

RouteInputs ==
  {[set |-> TRUE,
    fromNode |-> [NewNode(MakeId("-", 0), "process", 100, 100, "A") EXCEPT
                    !.width = sa.width, !.height = sa.height],
    fromPort |-> fp,
    toNode |-> [NewNode(MakeId("-", 1), "process", bx, by, "B") EXCEPT
                  !.width = sa.width, !.height = sa.height],
    toPort |-> tp,
    waypoints |-> w] :
     sa \in RouteSizes, bx \in RouteCoords, by \in RouteCoords,
     fp \in Ports4, tp \in Ports4, w \in RouteWaypoints}

Init_route ==
  InitCanvas_pz /\ InitView /\ routed \in RouteInputs /\ pathPoints = <<>>

RouteStart == getPortPosition(routed.fromNode, routed.fromPort)
RouteEnd   == getPortPosition(routed.toNode, routed.toPort)

GetPathPoints_r ==
  /\ routed.set /\ pathPoints = <<>>
  /\ pathPoints' = getPathPoints(RouteStart, RouteEnd, routed.fromPort,
                                 routed.toPort, routed.waypoints)
  /\ UNCHANGED <<objVars, sceneVars, idVars, selVars, histVars, isPanning,
                 resizeHandle, pzVars, arGesture, arMark, arClick, variant,
                 clipboard, routed, clockVars, viewVars, ghostVars>>

NextRoute == GetPathPoints_r

SpecRoute == Init_route /\ [][NextRoute]_vars

Routed     == routed.set /\ pathPoints # <<>>
Horizontal == {"left", "right"}
Vertical   == {"top", "bottom"}

(* C12: with a non-empty waypoints list getPathPoints returns exactly
   [start, w1, ..., wk, end], whatever the ports and the alignment. *)
C12_WaypointsArePath ==
  (Routed /\ routed.waypoints # <<>>)
    => pathPoints = <<RouteStart>> \o routed.waypoints \o <<RouteEnd>>

C12_Witness ==
  /\ Routed /\ Len(routed.waypoints) = 2
  /\ routed.fromPort = "right" /\ routed.toPort = "left"
  /\ RouteStart.y = RouteEnd.y
  /\ Len(pathPoints) = 4

Unrouted == Routed /\ routed.waypoints = <<>>

BothHorizontal == routed.fromPort \in Horizontal /\ routed.toPort \in Horizontal
BothVertical   == routed.fromPort \in Vertical /\ routed.toPort \in Vertical

AlignedPorts ==
  \/ BothHorizontal /\ Abs(RouteStart.y - RouteEnd.y) < 10
  \/ BothVertical /\ Abs(RouteStart.x - RouteEnd.x) < 10

(* node A centre (100,100) 120x60, right port, to the left port of node B
   centre (300,100) 120x60 *)
ScenarioAB ==
  /\ routed.set /\ routed.waypoints = <<>>
  /\ routed.fromNode.x = 100 /\ routed.fromNode.y = 100
  /\ routed.fromNode.width = 120 /\ routed.fromNode.height = 60
  /\ routed.toNode.x = 300 /\ routed.toNode.y = 100
  /\ routed.toNode.width = 120 /\ routed.toNode.height = 60
  /\ routed.fromPort = "right" /\ routed.toPort = "left"

(* C13: without waypoints, two horizontal-facing ports with |start.y - end.y|
   < 10, or two vertical-facing ports with |start.x - end.x| < 10, give
   exactly [start, end]; A.right -> B.left of the scenario gives
   [(160,100), (240,100)]. *)
C13_AlignedPortsGiveStraightLine ==
  /\ (Unrouted /\ AlignedPorts) => pathPoints = <<RouteStart, RouteEnd>>
  /\ (Routed /\ ScenarioAB)
       => pathPoints = <<[x |-> 160, y |-> 100], [x |-> 240, y |-> 100]>>

C13_Witness == Routed /\ ScenarioAB /\ Len(pathPoints) = 2

(* C14: without waypoints, perpendicular ports give exactly three points
   [start, corner, end]; the corner is (end.x, start.y) when the start port
   is horizontal-facing and (start.x, end.y) when it is vertical-facing. *)
C14_PerpendicularPortsGiveOneCorner ==
  /\ (Unrouted /\ routed.fromPort \in Horizontal /\ routed.toPort \in Vertical)
       => pathPoints = <<RouteStart, [x |-> RouteEnd.x, y |-> RouteStart.y],
                         RouteEnd>>
  /\ (Unrouted /\ routed.fromPort \in Vertical /\ routed.toPort \in Horizontal)
       => pathPoints = <<RouteStart, [x |-> RouteStart.x, y |-> RouteEnd.y],
                         RouteEnd>>

C14_Witness ==
  /\ Unrouted /\ routed.fromPort = "right" /\ routed.toPort = "top"
  /\ RouteStart.x # RouteEnd.x /\ RouteStart.y # RouteEnd.y
  /\ Len(pathPoints) = 3

RouteOffset1 ==
  [x |-> RouteStart.x + 30 * getPortDirection(routed.fromPort).x,
   y |-> RouteStart.y + 30 * getPortDirection(routed.fromPort).y]
RouteOffset2 ==
  [x |-> RouteEnd.x + 30 * getPortDirection(routed.toPort).x,
   y |-> RouteEnd.y + 30 * getPortDirection(routed.toPort).y]

(* C15: without waypoints, parallel ports outside the 10-unit alignment
   tolerance give exactly six points [start, offset1, jogA, jogB, offset2,
   end]: the offsets are start and end moved 30 units in their port's
   direction, the jogs lie on the midpoint between the offsets (in x for
   horizontal ports, in y for vertical ports) at the other coordinate of
   offset1 and offset2. *)
C15_ParallelPortsGiveSixPoints ==
  (Unrouted /\ (BothHorizontal \/ BothVertical) /\ ~AlignedPorts)
    => /\ Len(pathPoints) = 6
       /\ pathPoints[1] = RouteStart /\ pathPoints[6] = RouteEnd
       /\ pathPoints[2] = RouteOffset1 /\ pathPoints[5] = RouteOffset2
       /\ BothHorizontal
            => /\ 2 * pathPoints[3].x = RouteOffset1.x + RouteOffset2.x
               /\ pathPoints[4].x = pathPoints[3].x
               /\ pathPoints[3].y = RouteOffset1.y
               /\ pathPoints[4].y = RouteOffset2.y
       /\ BothVertical
            => /\ 2 * pathPoints[3].y = RouteOffset1.y + RouteOffset2.y
               /\ pathPoints[4].y = pathPoints[3].y
               /\ pathPoints[3].x = RouteOffset1.x
               /\ pathPoints[4].x = RouteOffset2.x

C15_Witness ==
  /\ Unrouted /\ routed.fromPort = "bottom" /\ routed.toPort = "top"
  /\ Abs(RouteStart.x - RouteEnd.x) = 10
  /\ Len(pathPoints) = 6

AxisParallel(p, q) == p.x = q.x \/ p.y = q.y

PathJoinsPorts ==
  /\ Len(pathPoints) >= 2
  /\ pathPoints[1] = RouteStart
  /\ pathPoints[Len(pathPoints)] = RouteEnd

(* C16 as stated: without waypoints, for every pair of ports the path has at
   least two points, begins at the from-port position, ends at the to-port
   position, and every two consecutive points agree in x or in y. *)
C16_PathIsOrthogonal ==
  Unrouted
    => /\ PathJoinsPorts
       /\ \A i \in 1..(Len(pathPoints) - 1) :
            AxisParallel(pathPoints[i], pathPoints[i + 1])

(* C16 amended: the same, except that the two-point path of aligned parallel
   ports is one straight segment that may slant by less than 10 units. *)
C16_PathIsOrthogonalUnlessAligned ==
  Unrouted
    => /\ PathJoinsPorts
       /\ \/ \A i \in 1..(Len(pathPoints) - 1) :
               AxisParallel(pathPoints[i], pathPoints[i + 1])
          \/ /\ AlignedPorts
             /\ Len(pathPoints) = 2
             /\ Abs(RouteStart.x - RouteEnd.x) < 10
                  \/ Abs(RouteStart.y - RouteEnd.y) < 10

(* a slanted two-point path between aligned ports *)
C16_Witness ==
  /\ Unrouted /\ AlignedPorts /\ Len(pathPoints) = 2
  /\ ~AxisParallel(pathPoints[1], pathPoints[2])


----------------------------------------------------------------------------
(* Both canvases: one node that is added, selected, dragged, resized by its
   corner handles, copied, pasted, undone and redone; in the area-enabled
   canvas also one area that is marked and resized by its eight handles *)

MaxHistResize == 5

ResizeSpot == [x |-> 300, y |-> 200]
DragSpot   == [x |-> 700, y |-> 200]

(* how far the pointer goes from the corner it pressed: outwards, inwards
   past the minimum size, and a short way *)
ResizeDeltas == {[dx |-> -80, dy |-> -80], [dx |-> 80, dy |-> 80],
                 [dx |-> 20, dy |-> -20]}

(* room for one more snapshot, and nothing undone *)
RoomForResize == historyIndex + 1 < MaxHistResize /\ AtNewest

Resizing_z == IF variant = "pz" THEN isResizing ELSE resizingNode # Null

Dragging_z == IF variant = "pz" THEN isDragging ELSE draggingNode # Null

(* where the pointer was pressed *)
PressedAt ==
  IF variant = "pz" THEN [x |-> resizeStartX, y |-> resizeStartY]
  ELSE [x |-> resizeStart.x, y |-> resizeStart.y]

(* how far the pointer goes from the area handle it pressed: inwards past
   the minimum size from the left and top, inwards past it from the right
   and bottom, and a short way *)
AreaDeltas == {[dx |-> 120, dy |-> 80], [dx |-> -120, dy |-> -80],
               [dx |-> -40, dy |-> 40]}

(* the session works on a node or on an area *)
AddNode_z ==
  /\ nodes = <<>> /\ areas = <<>> /\ ~markingArea
  /\ Idle_h /\ ~threw /\ RoomForResize
  /\ \/ variant = "pz" /\ addNode_pz("process", "A", ResizeSpot.x, ResizeSpot.y)
     \/ variant = "ar" /\ addNode_ar("process", "A", ResizeSpot.x, ResizeSpot.y)

(* the host adds a second node whose left port lies inside the body of the
   first *)
BesideSpot == [x |-> ResizeSpot.x + 100, y |-> ResizeSpot.y]

AddBeside_z ==
  /\ variant = "ar" /\ Len(nodes) = 1
  /\ Idle_h /\ ~threw /\ RoomForResize
  /\ addNode_ar("process", "B", BesideSpot.x, BesideSpot.y)

(* a press on the body of a node selects it and starts a drag *)
PressBody_z ==
  \E n \in Range(nodes) :
    /\ Idle_h /\ ~threw /\ RoomForResize
    /\ \/ variant = "pz" /\ handleMouseDown_pz(0, nodeObj[n].x, nodeObj[n].y)
       \/ variant = "ar"
            /\ handleMouseDown_ar(0, FALSE, nodeObj[n].x, nodeObj[n].y, FALSE)

(* a press on a corner handle of the selected node starts a resize *)
PressHandle_z ==
  /\ Idle_h /\ ~threw /\ RoomForResize
  /\ selectedNode # Null
  /\ \E h \in Range(getResizeHandles(nodeObj[selectedNode])) :
       \/ variant = "pz" /\ handleMouseDown_pz(0, h.x, h.y)
       \/ variant = "ar" /\ handleMouseDown_ar(0, FALSE, h.x, h.y, FALSE)

MoveResize_z ==
  \E d \in ResizeDeltas :
    /\ Resizing_z /\ ~threw
    /\ \/ variant = "pz"
            /\ handleMouseMove_pz(PressedAt.x + d.dx, PressedAt.y + d.dy)
       \/ variant = "ar"
            /\ handleMouseMove_ar(PressedAt.x + d.dx, PressedAt.y + d.dy)

MoveDrag_z ==
  /\ Dragging_z /\ ~threw
  /\ \/ variant = "pz" /\ handleMouseMove_pz(DragSpot.x, DragSpot.y)
     \/ variant = "ar" /\ handleMouseMove_ar(DragSpot.x, DragSpot.y)

Release_z ==
  /\ ~Idle_h /\ ~threw
  /\ \/ variant = "pz" /\ handleMouseUp_pz(DragSpot.x, DragSpot.y)
     \/ variant = "ar" /\ handleMouseUp_ar

StartAreaMarking_z ==
  /\ variant = "ar" /\ Idle_h /\ ~threw /\ RoomForResize
  /\ nodes = <<>> /\ areas = <<>> /\ ~markingArea
  /\ startAreaMarking

(* a pointer-up close to the pointer-down of a marking *)
MarkNear == [x |-> 40, y |-> 60]

(* the rectangle is drawn from MarkFrom to MarkTo or to MarkNear *)
PressMark_z ==
  /\ variant = "ar" /\ markingArea /\ Idle_h /\ ~threw
  /\ handleMouseDown_ar(0, FALSE, MarkFrom.x, MarkFrom.y, FALSE)

MoveMark_z ==
  \E p \in {MarkTo, MarkNear} :
    /\ variant = "ar" /\ markingArea /\ areaStart.set /\ ~threw
    /\ handleMouseMove_ar(p.x, p.y)

(* a press on one of the eight handles of the selected area *)
PressAreaHandle_z ==
  /\ variant = "ar" /\ Idle_h /\ ~threw /\ AtNewest
  /\ historyIndex + 2 < MaxHistResize
  /\ selectedArea # Null
  /\ \E h \in Range(getAreaResizeHandles(areaObj[selectedArea])) :
       handleMouseDown_ar(0, FALSE, h.x, h.y, FALSE)

MoveAreaResize_z ==
  \E d \in AreaDeltas :
    /\ variant = "ar" /\ resizingArea # Null /\ ~threw
    /\ handleMouseMove_ar(PressedAt.x + d.dx, PressedAt.y + d.dy)

Copy_z == variant = "pz" /\ Idle_h /\ ~threw /\ copySelected_pz

Paste_z ==
  /\ variant = "pz" /\ Idle_h /\ ~threw
  /\ Len(nodes) = 1 /\ AtNewest
  /\ historyIndex + 2 < MaxHistResize
  /\ paste_pz

KeyUndo_z ==
  /\ Idle_h /\ ~threw
  /\ \/ variant = "pz" /\ handleKeyDown_pz("undo")
     \/ variant = "ar" /\ handleKeyDown_ar("undo")

KeyRedo_z ==
  /\ Idle_h /\ ~threw
  /\ \/ variant = "pz" /\ handleKeyDown_pz("redo")
     \/ variant = "ar" /\ handleKeyDown_ar("redo")

NextResize ==
  \/ AddNode_z
  \/ AddBeside_z
  \/ PressBody_z
  \/ PressHandle_z
  \/ MoveResize_z
  \/ MoveDrag_z
  \/ Release_z
  \/ StartAreaMarking_z
  \/ PressMark_z
  \/ MoveMark_z
  \/ PressAreaHandle_z
  \/ MoveAreaResize_z
  \/ Copy_z
  \/ Paste_z
  \/ KeyUndo_z
  \/ KeyRedo_z

SpecResize == InitHist /\ [][NextResize]_vars

(* the node a resize gesture works on *)
ResizedNode == IF variant = "pz" THEN selectedNode ELSE resizingNode

(* the pointer has taken the node being resized down to the minimum size *)
ClampedNow ==
  /\ Resizing_z /\ ResizedNode # Null
  /\ nodeObj[ResizedNode].width = minNodeWidth
  /\ nodeObj[ResizedNode].height = minNodeHeight

(* C17: in the area-enabled canvas every step of a node resize gesture, the
   press on a corner handle, each move of the pointer and the release,
   leaves the centre (x, y) of the node where it was, also when the move
   runs into the minimum size *)
C17_ResizeKeepsCentre ==
  [][LET n == IF resizingNode # Null THEN resizingNode ELSE resizingNode'
     IN (variant = "ar" /\ n # Null)
          => /\ n \in DOMAIN nodeObj'
             /\ nodeObj'[n].x = nodeObj[n].x
             /\ nodeObj'[n].y = nodeObj[n].y]_vars

(* a resize of the area-enabled canvas has run into the minimum size *)
C17_Witness ==
  /\ variant = "ar" /\ ClampedNow
  /\ resizeStart.width > minNodeWidth

(* C18: in the canvases that resize through updateResize, while a resize is
   in progress the centre (x, y) of the node is where it was when the resize
   started *)
C18_UpdateResizeKeepsCentre ==
  (variant = "pz" /\ isResizing /\ selectedNode # Null)
    => /\ nodeObj[selectedNode].x = resizeStartNodeX
       /\ nodeObj[selectedNode].y = resizeStartNodeY

(* C19: every node of the scene is at least 60 wide and 40 high, in the
   middle of a resize gesture as well as between gestures, and no handler
   has raised an error *)
C19_NodesKeepMinimumSize ==
  /\ ~threw
  /\ \A n \in Range(nodes) :
       nodeObj[n].width >= 60 /\ nodeObj[n].height >= 40

(* in the pan/zoom canvas a resize is in progress and the pointer has taken
   a node that was larger down to the minimum size *)
C19_Witness ==
  /\ variant = "pz" /\ ClampedNow
  /\ resizeStartWidth > minNodeWidth
  /\ resizeStartHeight > minNodeHeight

LeftHandles   == {"top-left", "left", "bottom-left"}
RightHandles  == {"top-right", "right", "bottom-right"}
TopHandles    == {"top-left", "top", "top-right"}
BottomHandles == {"bottom-left", "bottom", "bottom-right"}

(* C20: while an area is being resized, an edge that does not pass through
   the pressed handle has the coordinate it had at pointer-down: a corner
   handle leaves the opposite corner in place, an edge-midpoint handle
   changes the coordinate of its own edge only *)
C20_AreaResizeKeepsOtherEdges ==
  (variant = "ar" /\ resizingArea # Null)
    => LET a == areaObj[resizingArea]
       IN /\ resizeHandle \in LeftHandles \/ a.x1 = resizeStart.x1
          /\ resizeHandle \in RightHandles \/ a.x2 = resizeStart.x2
          /\ resizeHandle \in TopHandles \/ a.y1 = resizeStart.y1
          /\ resizeHandle \in BottomHandles \/ a.y2 = resizeStart.y2

(* the top-left handle has been dragged inwards as far as the minimum size
   lets it go *)
C20_Witness ==
  /\ variant = "ar" /\ resizingArea # Null
  /\ resizeHandle = "top-left"
  /\ areaObj[resizingArea].x1 # resizeStart.x1
  /\ areaObj[resizingArea].x1 = resizeStart.x2 - minAreaSize
  /\ areaObj[resizingArea].y1 = resizeStart.y2 - minAreaSize

(* C21: in the area-enabled canvas every area of the scene is at least 50
   wide and 50 high *)
C21_AreasKeepMinimumSize ==
  variant = "ar"
    => \A a \in Range(areas) :
         /\ areaObj[a].x2 - areaObj[a].x1 >= 50
         /\ areaObj[a].y2 - areaObj[a].y1 >= 50

(* C22: in the area-enabled canvas every pointer-up leaves the controller
   idle: not panning, no node or area being dragged or resized, no
   connection being drawn and no marking rectangle pending *)
C22_PointerUpReturnsToIdle ==
  ~ENABLED (MouseUp_a /\ ~Idle_ar')

(* C23: in the area-enabled canvas an Escape key event leaves the
   controller idle, with no marking in progress, and leaves history and
   historyIndex as they were *)
C23_EscapeReturnsToIdle ==
  ~ENABLED (/\ handleKeyDown_ar("Escape")
            /\ ~(Idle_ar' /\ ~markingArea' /\ UNCHANGED histVars))

(* the positions in the collection of the nodes whose body holds p *)
BodiesAt(p) ==
  {i \in 1..Len(nodes) : containsPoint(nodeObj[nodes[i]], p.x, p.y)}

(* the node drawn last among them *)
Topmost(p) ==
  nodes[CHOOSE i \in BodiesAt(p) : \A j \in BodiesAt(p) : j <= i]

(* the points half way between the centres of two nodes *)
MidPoints ==
  {[x |-> (nodeObj[a].x + nodeObj[b].x) \div 2,
    y |-> (nodeObj[a].y + nodeObj[b].y) \div 2] : a, b \in Range(nodes)}

(* C24: a pointer-down on a point inside the bodies of two or more nodes
   that starts a drag selects and drags the node that is latest in the
   collection *)
C24_TopmostNodeIsPicked ==
  (variant = "pz" /\ Idle_pz)
    => \A p \in MidPoints :
         Cardinality(BodiesAt(p)) >= 2
           => ~ENABLED (/\ handleMouseDown_pz(0, p.x, p.y)
                        /\ isDragging'
                        /\ selectedNode' # Topmost(p))

(* C25: in the area-enabled canvas a pointer-down within the port radius of
   a port of any node starts a connection, whatever bodies of other nodes
   hold the point *)
C25_PortBeatsBodyAcrossNodes ==
  (variant = "ar" /\ Idle_ar /\ ~markingArea /\ ~spacePressed /\ areas = <<>>)
    => \A n \in Range(nodes) :
         \A pt \in Range(getConnectionPoints(nodeObj[n])) :
           ~ENABLED (/\ handleMouseDown_ar(0, FALSE, pt.x, pt.y, FALSE)
                     /\ connectingFrom'.node = Null)

----------------------------------------------------------------------------
(* Area-enabled canvas: clicks on one node and on the title bar of one area
   while the clock runs *)

MaxNow == 1600

(* a short and a long pause between two events *)
Pauses == {100, 300}

TitleSpot == [x |-> (MarkFrom.x + MarkTo.x) \div 2, y |-> MarkFrom.y - 15]

(* what lies under a point: the node, the title bar of the area, nothing *)
NodeUnder(p) ==
  nodes # <<>> /\ containsPoint(nodeObj[nodes[1]], p.x, p.y)

TitleUnder(p) ==
  areas # <<>> /\ isOnTitleBar(areaObj[areas[1]], p.x, p.y)

ClickPoints ==
  IF markingArea THEN {MarkFrom}
  ELSE (IF nodes # <<>> THEN {ResizeSpot} ELSE {})
         \cup (IF areas # <<>> THEN {TitleSpot} ELSE {})

AddNode_k ==
  /\ variant = "ar" /\ nodes = <<>> /\ ~markingArea
  /\ Idle_ar /\ ~threw /\ RoomForResize
  /\ addNode_ar("process", "A", ResizeSpot.x, ResizeSpot.y)

StartAreaMarking_k ==
  /\ variant = "ar" /\ areas = <<>> /\ ~markingArea
  /\ Idle_ar /\ ~threw /\ RoomForResize
  /\ startAreaMarking

Tick_k ==
  \E d \in Pauses :
    /\ variant = "ar" /\ now + d <= MaxNow
    /\ now' = now + d
    /\ UNCHANGED <<objVars, sceneVars, idVars, selVars, histVars, isPanning,
                   resizeHandle, pzVars, arGesture, arMark, arClick, variant,
                   clipboard, routed, pathPoints, lastClickTime, lastDown,
                   viewVars, ghostVars>>

(* a pointer-down at the current time; lastDown remembers which entity was
   under the pointer and when *)
Press_k ==
  \E p \in ClickPoints :
    /\ variant = "ar" /\ Idle_ar /\ ~threw /\ AtNewest
    /\ historyIndex < MaxHistResize
    /\ handleMouseDownAt_ar(0, FALSE, p.x, p.y, now)
    /\ lastDown' =
         IF ~markingArea /\ TitleUnder(p)
         THEN [lastDown EXCEPT !.on = "area", !.area = now]
         ELSE IF ~markingArea /\ NodeUnder(p)
         THEN [lastDown EXCEPT !.on = "node", !.node = now]
         ELSE [lastDown EXCEPT !.on = "none"]

MoveMark_k ==
  /\ variant = "ar" /\ markingArea /\ areaStart.set /\ ~threw
  /\ handleMouseMove_ar(MarkTo.x, MarkTo.y)

Release_k ==
  /\ variant = "ar" /\ ~Idle_ar /\ ~threw /\ RoomForResize
  /\ handleMouseUp_ar

NextClick ==
  \/ AddNode_k
  \/ StartAreaMarking_k
  \/ Tick_k
  \/ Press_k
  \/ MoveMark_k
  \/ Release_k

SpecClick == Init_ar /\ [][NextClick]_vars

(* the pointer-down of this step was taken as a double-click: it forgot the
   last click and started no drag *)
TakenAsDoubleClick ==
  /\ ~markingArea
  /\ \/ lastClickArea # Null /\ lastClickArea' = Null
     \/ lastClickNode # Null /\ lastClickNode' = Null

(* the time since the last pointer-down on the entity pressed in this step
   is less than the double-click delay *)
PressedAgainInTime ==
  \/ /\ lastDown'.on = "area"
     /\ lastDown.area >= 0 /\ now - lastDown.area < 300
  \/ /\ lastDown'.on = "node"
     /\ lastDown.node >= 0 /\ now - lastDown.node < 300

(* C26: a pointer-down on the title bar of an area or on the body of a node
   is taken as a double-click, with the selection, the drag state and the
   history left as they were, if and only if the last pointer-down on the
   same entity came less than 300 ms before it *)
C26_DoubleClickIffSameEntityInTime ==
  [][Press_k =>
       /\ TakenAsDoubleClick <=> PressedAgainInTime
       /\ TakenAsDoubleClick =>
            UNCHANGED <<selVars, histVars, draggingNode, draggingArea>>]_vars

(* one direction of the double-click rule: a pointer-down is taken as a
   double-click only when the last pointer-down on the same entity came
   less than 300 ms before it; presses on another entity in between do not
   count *)
DoubleClickOnlyInTime ==
  [][(Press_k /\ TakenAsDoubleClick) => PressedAgainInTime]_vars

----------------------------------------------------------------------------
(* Both canvases: zooming at a point, and in the pan/zoom canvas resetView
   and fitToContent over layouts of up to two nodes *)

MaxZoomDen == 100

(* the default limits, and limits close to 1 that a few steps reach *)
ViewOptions ==
  {DefaultOptions,
   [DefaultOptions EXCEPT !.minZoom = Rat(17, 20), !.maxZoom = Rat(6, 5)]}

Viewports == {[w |-> 800, h |-> 600], [w |-> 400, h |-> 300]}

ScreenPoints == {[x |-> 0, y |-> 0], [x |-> 400, y |-> 300]}

WheelDeltas == {-100, 100}

(* a second node far to the right of the first *)
FarSpot == [x |-> 20300, y |-> 200]

Init_view ==
  \/ /\ InitCanvas_pz /\ routed = NoRoute /\ pathPoints = <<>>
     /\ zoom = FromInt(1) /\ panX = FromInt(0) /\ panY = FromInt(0)
     /\ options \in ViewOptions
     /\ \E v \in Viewports : logicalWidth = v.w /\ logicalHeight = v.h
  \/ Init_ar

(* the fractions stay small enough to go one step further *)
RoomToZoom ==
  zoom.d <= MaxZoomDen /\ panX.d <= MaxZoomDen /\ panY.d <= MaxZoomDen

AddNode_v ==
  /\ Len(nodes) < 2 /\ ~threw
  /\ LET at == IF nodes = <<>> THEN ResizeSpot ELSE FarSpot
     IN \/ variant = "pz" /\ addNode_pz("process", "A", at.x, at.y)
        \/ variant = "ar" /\ addNode_ar("process", "A", at.x, at.y)

ZoomAt_v ==
  \E p \in ScreenPoints, delta \in WheelDeltas :
    variant = "pz" /\ RoomToZoom /\ zoomAt(p.x, p.y, delta)

Wheel_v ==
  \E p \in ScreenPoints, deltaY \in WheelDeltas :
    /\ RoomToZoom
    /\ \/ variant = "pz" /\ handleWheel_pz(p.x, p.y, deltaY)
       \/ variant = "ar" /\ handleWheel_ar(p.x, p.y, deltaY)

ResetView_v == variant = "pz" /\ resetView

FitToContent_v == variant = "pz" /\ fitToContent

NextView ==
  \/ AddNode_v
  \/ ZoomAt_v
  \/ Wheel_v
  \/ ResetView_v
  \/ FitToContent_v

SpecView == Init_view /\ [][NextView]_vars

(* the zoom that a step by delta asks for, brought into the limits *)
ClampedZoom(delta) ==
  RatMax(options.minZoom,
         RatMin(options.maxZoom,
                RatMul(zoom, IF delta > 0 THEN Rat(11, 10) ELSE Rat(9, 10))))

(* C27: every step zoomAt(p, delta) leaves the world point under the screen
   point p where it was, and sets the zoom to the zoom times 1.1 (delta > 0)
   or 0.9 brought into [minZoom, maxZoom]; the wheel handler of the
   area-enabled canvas keeps the world point as well *)
C27_ZoomAtKeepsPointUnderCursor ==
  [][\A p \in ScreenPoints, delta \in WheelDeltas :
       /\ (variant = "pz" /\ zoomAt(p.x, p.y, delta))
            => /\ screenToWorld(p.x, p.y)' = screenToWorld(p.x, p.y)
               /\ zoom' = ClampedZoom(delta)
       /\ (variant = "ar" /\ handleWheel_ar(p.x, p.y, delta))
            => /\ screenToWorld(p.x, p.y)' = screenToWorld(p.x, p.y)
               /\ zoom' = ClampedZoom(-delta)]_vars

(* the zoom has been stopped at the upper limit by a step at a point away
   from the origin, and the pan has moved *)
C27_Witness ==
  /\ variant = "pz"
  /\ zoom = options.maxZoom
  /\ RatLess(Rat(11, 10), zoom) /\ RatLess(zoom, Rat(121, 100))
  /\ panX # FromInt(0)

(* C28: in the pan/zoom canvas the zoom is within [minZoom, maxZoom] in
   every state, and no step of fitToContent sets a zoom above 1 *)
C28_ZoomWithinLimits ==
  /\ [](variant = "pz" => /\ RatLeq(options.minZoom, zoom)
                          /\ RatLeq(zoom, options.maxZoom))
  /\ [][FitToContent_v => RatLeq(zoom', FromInt(1))]_vars

(* fitToContent over two nodes that lie far apart *)
C28_FitBelowMinZoom ==
  variant = "pz" /\ Len(nodes) = 2 /\ RatLess(zoom, options.minZoom)

----------------------------------------------------------------------------
(* Pan/zoom canvas constructed for display: mode 'view', or readonly *)

DisplayOptions ==
  {[DefaultOptions EXCEPT !.mode = "view"],
   [DefaultOptions EXCEPT !.readonly = TRUE]}

Init_mode ==
  /\ InitCanvas_pz /\ routed = NoRoute /\ pathPoints = <<>>
  /\ zoom = FromInt(1) /\ panX = FromInt(0) /\ panY = FromInt(0)
  /\ options \in DisplayOptions
  /\ logicalWidth = 800 /\ logicalHeight = 600

(* init attaches the pointer and key listeners unless options.readonly *)
Listening == ~options.readonly

MouseDown_m == Listening /\ MouseDown_c
MouseMove_m == Listening /\ MouseMove_c
MouseUp_m   == Listening /\ MouseUp_c
KeyDelete_m == Listening /\ KeyDelete_c
KeyUndo_m   == Listening /\ KeyUndo_c
KeyRedo_m   == Listening /\ KeyRedo_c

UserEvent_m ==
  \/ MouseDown_m
  \/ MouseMove_m
  \/ MouseUp_m
  \/ KeyDelete_m
  \/ KeyUndo_m
  \/ KeyRedo_m

(* the page fills the chart through the API; the user's events follow *)
NextMode ==
  \/ AddNode_c
  \/ AddConnection_c
  \/ MouseDown_m
  \/ MouseMove_m
  \/ MouseUp_m
  \/ KeyDelete_m
  \/ KeyUndo_m
  \/ KeyRedo_m

SpecMode == Init_mode /\ [][NextMode]_vars

(* C29: in a canvas constructed with mode 'view' no pointer or key event
   changes the nodes, the connections, the selection or the history *)
C29_ViewModeIsDisplayOnly ==
  [][(options.mode = "view" /\ UserEvent_m)
       => UNCHANGED <<nodes, connections, objVars, selectedNode,
                      selectedConnection, histVars>>]_vars

(* a readonly canvas has no listeners: nothing is ever selected *)
ReadonlyIsStatic ==
  options.readonly => selectedNode = Null /\ selectedConnection = Null /\ Idle_pz

----------------------------------------------------------------------------
(* Both canvases: a session of committing actions, one addNode and then
   drags, followed by undo calls only *)

UndoFrom == 49

(* the number of committing actions that led to the newest snapshot *)
ActionsDone == IF history = <<>> THEN 0 ELSE Ord(Len(history))

(* the number of undo calls that have taken effect *)
UndosDone == Len(history) - 1 - historyIndex

(* a drag starts only when nothing is undone *)
MouseDown_u == AtNewest /\ MouseDown_h

KeyUndo_u ==
  /\ Idle_h /\ ActionsDone >= UndoFrom
  /\ \/ variant = "pz" /\ handleKeyDown_pz("undo")
     \/ variant = "ar" /\ handleKeyDown_ar("undo")

NextUndo ==
  \/ AddNode_h
  \/ MouseDown_u
  \/ MouseMove_h
  \/ MouseUp_h
  \/ KeyUndo_u

SpecUndo == InitHist /\ [][NextUndo]_vars

(* C30: once 50 or more committing actions have been made, each of the
   first 50 undo calls changes the scene *)
C30_FiftyActionsCanBeUndone ==
  (Idle_h /\ ActionsDone >= 50 /\ UndosDone < 50)
    => ~ENABLED (UndoCall /\ UNCHANGED <<nodes, nodeObj>>)

(* 49 undo calls have taken effect and the oldest snapshot is current *)
FortyNineUndone ==
  /\ ActionsDone >= 50 /\ UndosDone = 49 /\ historyIndex = 0

(* with 49 committing actions every one of them can be undone *)
FortyNineActionsCanBeUndone ==
  (Idle_h /\ ActionsDone = 49 /\ UndosDone < 49)
    => ~ENABLED (UndoCall /\ UNCHANGED <<nodes, nodeObj>>)

----------------------------------------------------------------------------
(* Pan/zoom canvas: paste as one undoable action *)

(* the scene as saveState records it *)
SceneNow_pz == Snapshot_pz(nodes, connections, nodeObj, connObj)

(* C31: a paste is one undoable action: the snapshot that the next undo
   restores is the scene before the paste, and undo restores the snapshot
   below the current one *)
C31_PasteIsOneUndoableAction ==
  /\ [][(Paste_i /\ clipboard.type = "node")
          => history'[historyIndex'] = SceneNow_pz]_vars
  /\ [][(variant = "pz" /\ KeyUndo_i /\ historyIndex > 0)
          => SceneNow_pz' = history[historyIndex]]_vars

(* the snapshot below the newest one already holds the pasted node *)
PastedNodeSurvivesUndo ==
  /\ variant = "pz" /\ AtNewest /\ Len(history) >= 3
  /\ Len(history[historyIndex].nodes) = Len(nodes)
  /\ Len(history[historyIndex - 1].nodes) = Len(nodes) - 1
  /\ history[historyIndex].nodes # history[historyIndex + 1].nodes

----------------------------------------------------------------------------
(* Area-enabled canvas: updateSettings and getSettings of nodes and areas *)

(* settings objects that hold one or several fields, a value equal to the
   present one, and a key that is no settings field *)
NodePartials ==
  {[text |-> "B"],
   [link |-> "https://example.org", text |-> "A"],
   [fillColor |-> "#FF0000", fontSize |-> 18],
   [outlineWidth |-> 0, x |-> 999, id |-> "other"]}

AreaPartials ==
  {[title |-> "Inputs"],
   [fillColor |-> "#EEEEEE", titleBgColor |-> "#333333"],
   [outlineColor |-> "#000", x1 |-> 999, id |-> "other"]}

(* a second node is added only to a scene without an area *)
AddNode_s ==
  /\ variant = "ar" /\ Len(nodes) < 2 /\ Idle_ar /\ ~markingArea
  /\ areas = <<>>
  /\ addNode_ar("process", "A", ResizeSpot.x + 200 * Len(nodes), ResizeSpot.y)

StartAreaMarking_s ==
  /\ variant = "ar" /\ Idle_ar /\ areas = <<>> /\ ~markingArea
  /\ Len(nodes) <= 1
  /\ startAreaMarking

PressMark_s ==
  /\ variant = "ar" /\ markingArea /\ ~areaStart.set
  /\ handleMouseDown_ar(0, FALSE, MarkFrom.x, MarkFrom.y, FALSE)

MoveMark_s ==
  /\ variant = "ar" /\ markingArea /\ areaStart.set
  /\ handleMouseMove_ar(MarkTo.x, MarkTo.y)

ReleaseMark_s ==
  variant = "ar" /\ markingArea /\ areaEnd.set /\ handleMouseUp_ar

UpdateNodeSettings_s ==
  \E n \in Range(nodes), st \in NodePartials :
    variant = "ar" /\ Idle_ar /\ updateNodeSettings(n, st)

UpdateAreaSettings_s ==
  \E a \in Range(areas), st \in AreaPartials :
    variant = "ar" /\ Idle_ar /\ updateAreaSettings(a, st)

NextSettings ==
  \/ AddNode_s
  \/ StartAreaMarking_s
  \/ PressMark_s
  \/ MoveMark_s
  \/ ReleaseMark_s
  \/ UpdateNodeSettings_s
  \/ UpdateAreaSettings_s

SpecSettings == Init_ar /\ [][NextSettings]_vars

NodeGeometry == {"id", "type", "x", "y", "width", "height"}
AreaGeometry == {"id", "x1", "y1", "x2", "y2"}

(* C32: updateSettings(partial) on a node or an area: getSettings()
   afterwards returns the supplied value for every settings field that
   partial holds and the previous value for every other settings field;
   geometry and id, and every other object, stay as they were *)
C32_UpdateSettingsChangesGivenFields ==
  [][/\ \A n \in Range(nodes), st \in NodePartials :
          updateNodeSettings(n, st)
            => /\ \A f \in SettingsFields :
                    getSettings(nodeObj'[n])[f]
                      = IF f \in DOMAIN st THEN st[f]
                        ELSE getSettings(nodeObj[n])[f]
               /\ \A f \in NodeGeometry : nodeObj'[n][f] = nodeObj[n][f]
               /\ \A m \in DOMAIN nodeObj \ {n} : nodeObj'[m] = nodeObj[m]
               /\ areaObj' = areaObj
     /\ \A a \in Range(areas), st \in AreaPartials :
          updateAreaSettings(a, st)
            => /\ \A f \in AreaSettingsFields :
                    Area_getSettings(areaObj'[a])[f]
                      = IF f \in DOMAIN st THEN st[f]
                        ELSE Area_getSettings(areaObj[a])[f]
               /\ \A f \in AreaGeometry : areaObj'[a][f] = areaObj[a][f]
               /\ nodeObj' = nodeObj]_vars

(* a node and an area whose settings were changed by several calls, some
   fields still at the values of construction *)
C32_Witness ==
  /\ nodes # <<>> /\ areas # <<>>
  /\ nodeObj[nodes[1]].link = "https://example.org"
  /\ nodeObj[nodes[1]].fontSize = 18
  /\ nodeObj[nodes[1]].outlineWidth = 2
  /\ nodeObj[nodes[1]].x = ResizeSpot.x
  /\ areaObj[areas[1]].title = "Inputs"
  /\ areaObj[areas[1]].titleBgColor = "#333333"
  /\ areaObj[areas[1]].x1 = MarkFrom.x

----------------------------------------------------------------------------
(* Area-enabled canvas: the history and its index *)

(* C33: in the area-enabled canvas the history is never empty and
   0 <= historyIndex <= history.length - 1 *)
C33_HistoryIndexInRange ==
  variant = "ar"
    => /\ Len(history) >= 1
       /\ 0 <= historyIndex /\ historyIndex <= Len(history) - 1

(* clear() has left no snapshot; undo and redo have nothing to restore *)
HistoryEmptied ==
  variant = "ar" /\ history = <<>> /\ historyIndex = -1

----------------------------------------------------------------------------
(* Pan/zoom canvas: the scene and the current snapshot *)

(* C34: in the pan/zoom canvas, whenever no gesture is in progress the
   scene equals the snapshot at history[historyIndex] *)
C34_SceneEqualsCurrentSnapshot ==
  (variant = "pz" /\ Idle_pz) => SceneNow_pz = history[historyIndex + 1]

(* an imported document is in the scene and the only snapshot is still the
   empty scene of construction *)
ImportedWithoutSnapshot ==
  /\ variant = "pz" /\ Idle_pz
  /\ nodes # <<>> /\ Len(history) = 1 /\ history[1].nodes = <<>>

----------------------------------------------------------------------------
(* Area-enabled canvas: the Space key and a press that follows a click made
   in marking mode *)

KeySpace_g   == ~threw /\ handleKeyDown_ar("Space")
KeySpaceUp_g == ~threw /\ spacePressed /\ handleKeyUp_ar("Space")

(* in marking mode a pointer-down followed by a pointer-up without a move
   leaves areaStart set and areaEnd unset; the next pointer-down comes in
   that state *)
PressAfterClick_g ==
  /\ ~threw /\ AtNewest
  /\ markingArea /\ areaStart.set /\ ~areaEnd.set
  /\ handleMouseDown_ar(0, FALSE, MarkFrom.x, MarkFrom.y, FALSE)

NextGesture ==
  \/ NextArea
  \/ KeySpace_g
  \/ KeySpaceUp_g
  \/ PressAfterClick_g

SpecGesture == Init_ar /\ [][NextGesture]_vars

(* the transient interactions that are active *)
ActiveInteractions ==
  {k \in {"pan", "dragNode", "dragArea", "resizeNode", "resizeArea",
          "connect", "mark"} :
     \/ k = "pan" /\ isPanning
     \/ k = "dragNode" /\ draggingNode # Null
     \/ k = "dragArea" /\ draggingArea # Null
     \/ k = "resizeNode" /\ resizingNode # Null
     \/ k = "resizeArea" /\ resizingArea # Null
     \/ k = "connect" /\ connectingFrom.node # Null
     \/ k = "mark" /\ areaStart.set}

(* C35: in the area-enabled canvas at most one of panning, node drag, area
   drag, node resize, area resize, connecting and a pending marking
   rectangle is active *)
C35_AtMostOneInteraction ==
  variant = "ar" => Cardinality(ActiveInteractions) <= 1

(* a pan has started while a marking rectangle is pending *)
PanningWhileMarking ==
  variant = "ar" /\ isPanning /\ areaStart.set /\ markingArea

----------------------------------------------------------------------------
(* Pan/zoom canvas: key events between the pointer events of a resize *)

(* the keys act whether or not a gesture is in progress *)
KeyDelete_r ==
  ~threw /\ historyIndex + 1 < MaxHistResize /\ handleKeyDown_pz("Delete")
KeyUndo_r == ~threw /\ handleKeyDown_pz("undo")
KeyRedo_r == ~threw /\ handleKeyDown_pz("redo")

NextKeys ==
  \/ AddNode_z
  \/ PressBody_z
  \/ PressHandle_z
  \/ MoveResize_z
  \/ Release_z
  \/ KeyDelete_r
  \/ KeyUndo_r
  \/ KeyRedo_r

SpecKeys == Init_pz /\ [][NextKeys]_vars

(* C36: in the pan/zoom canvas, whenever isResizing is true selectedNode is
   a node of the scene *)
C36_ResizeHasSelectedNode ==
  (variant = "pz" /\ isResizing)
    => selectedNode # Null /\ selectedNode \in Range(nodes)

(* a pointer-move of the resize has found no selected node *)
ResizeWithoutNode ==
  variant = "pz" /\ isResizing /\ selectedNode = Null /\ threw

----------------------------------------------------------------------------
(* Area-enabled canvas: the references held by the controller *)

(* C37: in the area-enabled canvas selectedNode, draggingNode, resizingNode
   and connectingFrom.node, when set, are nodes of the scene,
   selectedConnection is a connection of the scene, and selectedArea,
   draggingArea and resizingArea are areas of the scene *)
C37_ReferencesAreInScene ==
  variant = "ar"
    => /\ \A n \in {selectedNode, draggingNode, resizingNode,
                    connectingFrom.node} \ {Null} : n \in Range(nodes)
       /\ selectedConnection # Null => selectedConnection \in Range(connections)
       /\ \A a \in {selectedArea, draggingArea, resizingArea} \ {Null} :
            a \in Range(areas)

(* the selected node is an object that the import has replaced: the scene
   holds another object with the same id *)
SelectedNodeReplaced ==
  /\ variant = "ar" /\ selectedNode # Null
  /\ selectedNode \notin Range(nodes)
  /\ \E n \in Range(nodes) : nodeObj[n].id = nodeObj[selectedNode].id

----------------------------------------------------------------------------
(* Pan/zoom canvas: selection under clicks, reconnects, copy, paste, delete,
   undo and redo *)

MaxHistSelect == 7
MaxNodesSelect == 3

RoomForSelect == historyIndex + 1 < MaxHistSelect /\ AtNewest

AddNode_q ==
  /\ Idle_pz /\ ~threw /\ RoomForSelect
  /\ \E i \in 1..Len(Slots) : ~Occupied(Slots[i])
  /\ addNode_pz("process", "A", FreeSlot.x, FreeSlot.y)

(* addConnection through the API, from the right port of the first node *)
AddConnection_q ==
  \E t \in Range(nodes) :
    /\ connections = <<>> /\ Idle_pz /\ ~threw /\ RoomForSelect
    /\ AddConnectionCall_pz(nodes[1], "right", t, "top")

MouseDown_q ==
  \E p \in PointerPoints :
    Idle_pz /\ ~threw /\ AtNewest /\ handleMouseDown_pz(0, p.x, p.y)

(* the button is released where it was pressed *)
MouseUp_q ==
  \E p \in PointerPoints :
    /\ ~Idle_pz /\ ~threw /\ RoomForSelect
    /\ isDragging => (p.x = nodeObj[selectedNode].x /\ p.y = nodeObj[selectedNode].y)
    /\ handleMouseUp_pz(p.x, p.y)

Copy_q == Idle_pz /\ ~threw /\ copySelected_pz

Paste_q ==
  /\ Idle_pz /\ ~threw /\ AtNewest
  /\ historyIndex + 2 < MaxHistSelect
  /\ Len(nodes) < MaxNodesSelect
  /\ paste_pz

KeyDelete_q == Idle_pz /\ ~threw /\ RoomForSelect /\ handleKeyDown_pz("Delete")
KeyUndo_q   == Idle_pz /\ ~threw /\ handleKeyDown_pz("undo")
KeyRedo_q   == Idle_pz /\ ~threw /\ handleKeyDown_pz("redo")

NextSelect ==
  \/ AddNode_q
  \/ AddConnection_q
  \/ MouseDown_q
  \/ MouseUp_q
  \/ Copy_q
  \/ Paste_q
  \/ KeyDelete_q
  \/ KeyUndo_q
  \/ KeyRedo_q

SpecSelect == Init_pz /\ [][NextSelect]_vars

(* C38: at most one entity is selected: in the pan/zoom canvas not both a
   node and a connection, in the area-enabled canvas at most one of a node,
   a connection and an area *)
C38_AtMostOneSelected ==
  /\ variant = "pz" => (selectedNode = Null \/ selectedConnection = Null)
  /\ variant = "ar"
       => Cardinality({k \in {"node", "connection", "area"} :
                         \/ k = "node" /\ selectedNode # Null
                         \/ k = "connection" /\ selectedConnection # Null
                         \/ k = "area" /\ selectedArea # Null}) <= 1

(* a pasted node is selected together with the connection that was selected
   before the paste *)
PastedBesideSelectedConnection ==
  /\ variant = "pz" /\ Idle_pz
  /\ selectedNode # Null /\ selectedConnection # Null
  /\ selectedNode = nodes[Len(nodes)]

(* ------------------------------------------------------------------ *)
(* Corner handles of updateResize *)

OppositeHandle(position) ==
  CASE position = "top-left" -> "bottom-right"
    [] position = "top-right" -> "bottom-left"
    [] position = "bottom-right" -> "top-left"
    [] position = "bottom-left" -> "top-right"

(* the corner of a box with centre (x, y) that getResizeHandles gives for a
   position *)
CornerAt(n, position) ==
  LET h == CHOOSE c \in Range(getResizeHandles(n)) : c.position = position
  IN [x |-> h.x, y |-> h.y]

(* the box of the node at the pointer-down of the resize, as startResizing
   recorded it *)
ResizeStartBox ==
  [x |-> resizeStartNodeX, y |-> resizeStartNodeY,
   width |-> resizeStartWidth, height |-> resizeStartHeight]

ResizingCorner_pz ==
  /\ variant = "pz" /\ isResizing
  /\ selectedNode \in Range(nodes)
  /\ resizeHandle \in {"top-left", "top-right", "bottom-right", "bottom-left"}

(* C39: while a corner handle of a node is dragged in the pan/zoom canvas,
   the corner diagonally opposite the dragged handle is where it was when
   the resize started, and the dragged corner is away from its start by the
   change of the size *)
C39_OppositeCornerStays ==
  ResizingCorner_pz
    => LET n   == nodeObj[selectedNode]
           opp == OppositeHandle(resizeHandle)
           dw  == n.width - resizeStartWidth
           dh  == n.height - resizeStartHeight
           sx  == IF resizeHandle \in {"top-left", "bottom-left"} THEN -1 ELSE 1
           sy  == IF resizeHandle \in {"top-left", "top-right"} THEN -1 ELSE 1
       IN /\ CornerAt(n, opp) = CornerAt(ResizeStartBox, opp)
          /\ CornerAt(n, resizeHandle).x
               = CornerAt(ResizeStartBox, resizeHandle).x + sx * dw
          /\ CornerAt(n, resizeHandle).y
               = CornerAt(ResizeStartBox, resizeHandle).y + sy * dh

(* the top-left handle has been dragged outwards: the top-left corner has
   not moved and the bottom-right corner has *)
DraggedCornerStays ==
  /\ ResizingCorner_pz /\ resizeHandle = "top-left"
  /\ nodeObj[selectedNode].width > resizeStartWidth
  /\ CornerAt(nodeObj[selectedNode], "top-left")
       = CornerAt(ResizeStartBox, "top-left")
  /\ CornerAt(nodeObj[selectedNode], "bottom-right")
       # CornerAt(ResizeStartBox, "bottom-right")

(* the bottom-right handle has been dragged: the top-left corner is where
   it was *)
BottomRightKeepsTopLeft ==
  /\ ResizingCorner_pz /\ resizeHandle = "bottom-right"
  /\ nodeObj[selectedNode].width # resizeStartWidth
  /\ CornerAt(nodeObj[selectedNode], "top-left")
       = CornerAt(ResizeStartBox, "top-left")

(* ------------------------------------------------------------------ *)
(* Area-enabled canvas: pan gestures and the wheel beside a document *)

WheelDen == 10

WheelSpot == [x |-> 200, y |-> 100]

(* a wheel event, at any moment of a gesture *)
Wheel_p ==
  \E deltaY \in WheelDeltas :
    /\ zoom.d <= WheelDen /\ panX.d <= WheelDen /\ panY.d <= WheelDen
    /\ ~threw
    /\ handleWheel_ar(WheelSpot.x, WheelSpot.y, deltaY)

NextPan ==
  \/ AddNode_a
  \/ StartAreaMarking_a
  \/ MouseDown_a
  \/ MouseMove_a
  \/ MouseUp_a
  \/ KeySpace_g
  \/ KeySpaceUp_g
  \/ PressAfterClick_g
  \/ Wheel_p

SpecPan == Init_ar /\ [][NextPan]_vars

(* what the document consists of: the scene, the identifier counters and
   the undo history *)
Document == <<CurrentScene, idVars, histVars>>

(* C40: in the area-enabled canvas the pointer-down that starts panning,
   the pointer-moves and the pointer-up that come while isPanning is set,
   and every wheel event leave the nodes, the connections, the areas, the
   identifier counters, history and historyIndex as they were *)
C40_PanAndZoomKeepDocument ==
  /\ [][((MouseDown_a \/ PressAfterClick_g) /\ isPanning')
          => UNCHANGED Document]_vars
  /\ [][((MouseMove_a \/ MouseUp_a) /\ isPanning)
          => UNCHANGED Document]_vars
  /\ [][Wheel_p => UNCHANGED Document]_vars

====
